---------------------------- MODULE Spec2Model ----------------------------
(***************************************************************************)
(* Conflict detection and rerouting engine of the Railways repository.     *)
(*                                                                         *)
(* The repository holds three alternative server programs that expose the  *)
(* same /decide and /apply_reroute endpoints:                              *)
(*   _D  src/distance_ai_server.py   (process-wide blocked_edges)          *)
(*   _S  src/extreme_ai_sync.py      (risk score, per-call blocked set)    *)
(*   _X  src/extreme_ai_server.py    (second half of the file, KAVACH 2.0) *)
(* A definition that models code of one of them carries that suffix.       *)
(*                                                                         *)
(* Numbers.  Coordinates are integers in units of 1e-5 degree, distances   *)
(* are integer metres, speeds integer km/h, and every quantity the code    *)
(* keeps in [0,1] (progress, scores, risks) is an integer in thousandths.  *)
(***************************************************************************)
EXTENDS Integers, Sequences, FiniteSets, TLC

VARIABLES
    server,              \* which of the three programs this process runs
    blocked_edges,       \* _D: module global blocked_edges
    current_graph,       \* _S, _X: module global current_graph
    current_trains,      \* _S, _X: module global current_trains
    trains_saved_today,  \* _X: module global trains_saved_today
    req,                 \* the request being answered (inputs of the last call)
    resp,                \* the answer to req
    spawn_enabled,       \* _S: module global spawn_enabled
    spawned_trains,      \* _S: module global spawned_trains
    health,              \* _S: the /health call in progress: position and locals
    spawner,             \* _S, _X: the spawn_worker thread: position and locals
    max_trains,          \* _S, _X: module global max_trains
    calls                \* the requests being handled by worker threads:
                         \* position and locals of each

vars == <<server, blocked_edges, current_graph, current_trains,
          trains_saved_today, req, resp, spawn_enabled, spawned_trains,
          health, spawner, max_trains, calls>>

spawnVars == <<spawn_enabled, spawned_trains, health, spawner, max_trains>>

\* no /health call is in progress
HealthIdle == [pc |-> "idle", nonempty |-> FALSE, g |-> "None", nodes_from |-> "None"]

\* spawn_worker is in time.sleep
SpawnerAsleep == [pc |-> "sleep", nonempty |-> FALSE]

MaxCalls == 3

\* the worker threads that handle requests side by side
CallIds == 1..MaxCalls

NoRequest == [op |-> "none"]

\* a worker thread that handles no request
CallIdle == [pc |-> "idle", r |-> NoRequest, loaded |-> 0, reported |-> 0,
             response |-> [op |-> "none"]]

\* extreme_ai_sync.py lines 89-92 and the thread started at lines 513-514;
\* no request is being handled
SpawnInit ==
    /\ spawn_enabled = FALSE
    /\ spawned_trains = <<>>
    /\ health = HealthIdle
    /\ spawner = SpawnerAsleep
    /\ max_trains = 100
    /\ calls = [c \in CallIds |-> CallIdle]

---------------------------------------------------------------------------
(* Python values *)

\* Python's None
None == "None"

\* Order of the station and train identifiers under Python's str comparison.
NameOrder == <<"A", "B", "C", "D", "T1", "T2", "T3", "Z">>

NameRank(s) == CHOOSE i \in 1..Len(NameOrder) : NameOrder[i] = s

\* Python's s1 < s2 on the identifiers in use
StrLess(s1, s2) == NameRank(s1) < NameRank(s2)

RECURSIVE ListLessFrom(_, _, _)
ListLessFrom(p, q, i) ==
    IF i > Len(p) THEN i <= Len(q)
    ELSE IF i > Len(q) THEN FALSE
    ELSE IF p[i] = q[i] THEN ListLessFrom(p, q, i + 1)
    ELSE StrLess(p[i], q[i])

\* Python's p < q on lists of str
ListLess(p, q) == ListLessFrom(p, q, 1)

Abs(x) == IF x < 0 THEN -x ELSE x
Min(x, y) == IF x <= y THEN x ELSE y
Max(x, y) == IF x >= y THEN x ELSE y

RECURSIVE ISqrtBetween(_, _, _)
ISqrtBetween(n, lo, hi) ==
    IF lo >= hi THEN lo
    ELSE LET mid == (lo + hi + 1) \div 2
         IN  IF mid * mid <= n THEN ISqrtBetween(n, mid, hi)
             ELSE ISqrtBetween(n, lo, mid - 1)

\* floor of math.sqrt
ISqrt(n) == ISqrtBetween(n, 0, 46340)

(* haversine: great-circle distance in metres.  All stations lie within a  *)
(* few hundredths of a degree of latitude 0, where 2*R*asin(sqrt(a)) is    *)
(* R times the Euclidean norm of the coordinate difference in radians to   *)
(* within a centimetre: 1.11195 m per 1e-5 degree.  The one far point is   *)
(* the fallback coordinate (20, 70) of extreme_ai_server.py; a distance to *)
(* it is taken on a grid of 1e-2 degree, which keeps it thousands of       *)
(* kilometres away.                                                        *)
haversine(lat1, lon1, lat2, lon2) ==
    LET dlat == Abs(lat2 - lat1)
        dlon == Abs(lon2 - lon1)
    IN  IF dlat > 30000 \/ dlon > 30000
        THEN (111195 * ISqrt((dlat \div 1000) * (dlat \div 1000)
                             + (dlon \div 1000) * (dlon \div 1000))) \div 100
        ELSE (111195 * ISqrt(dlat * dlat + dlon * dlon)) \div 100000

---------------------------------------------------------------------------
(* Router results *)

(* What a call of dijkstra produces: a list of stations, None, or an       *)
(* exception.  cost is the d of the heap entry whose pop ended the search; *)
(* the code does not return it, the model keeps it to compare it.          *)
PathResult(p, d) == [kind |-> "path",  path |-> p,    cost |-> d, error |-> None]
NoPath           == [kind |-> "none",  path |-> <<>>, cost |-> 0, error |-> None]
Raised(e)        == [kind |-> "raise", path |-> <<>>, cost |-> 0, error |-> e]

RemoveAt(s, i) == SubSeq(s, 1, i - 1) \o SubSeq(s, i + 1, Len(s))

\* Python's tuple order on heap entries (d, node, path)
HeapLess(x, y) ==
    \/ x[1] < y[1]
    \/ /\ x[1] = y[1]
       /\ \/ StrLess(x[2], y[2])
          \/ x[2] = y[2] /\ ListLess(x[3], y[3])

\* mutant: the queue is popped as a stack
HeapLastIndex(pq) == Len(pq)

\* heapq.heappop returns a least entry
HeapMinIndex(pq) ==
    CHOOSE i \in 1..Len(pq) :
        \A j \in 1..Len(pq) : ~HeapLess(pq[j], pq[i]) /\ (pq[j] = pq[i] => i <= j)

\* mutant: only the direction written in the blocked set is skipped
IsBlockedOneWay(u, v, blocked) == <<u, v>> \in blocked

\* "(u, v) in blocked or (v, u) in blocked"
IsBlocked(u, v, blocked) == <<u, v>> \in blocked \/ <<v, u>> \in blocked

---------------------------------------------------------------------------
(* dijkstra of distance_ai_server.py *)

RECURSIVE AdjLoop_D(_, _, _, _)
\* lines 70-73: adj[u].append(v); adj[v].append(u) for every edge not blocked;
\* adj[x] of a name that is no station raises KeyError
AdjLoop_D(adj, edges, i, blocked) ==
    IF i > Len(edges) THEN [ok |-> TRUE, adj |-> adj]
    ELSE LET u == edges[i][1]
             v == edges[i][2]
         IN  IF IsBlocked(u, v, blocked) THEN AdjLoop_D(adj, edges, i + 1, blocked)
             ELSE IF u \notin DOMAIN adj \/ v \notin DOMAIN adj
                  THEN [ok |-> FALSE, adj |-> adj]
             ELSE LET a1 == [adj EXCEPT ![u] = Append(@, v)]
                      a2 == [a1 EXCEPT ![v] = Append(@, u)]
                  IN  AdjLoop_D(a2, edges, i + 1, blocked)

\* dist[nei] is float("inf") until the first push; -1 stands for inf
DistLess_D(newd, old) == old = -1 \/ newd < old

RECURSIVE Relax_D(_, _, _, _, _, _, _, _)
\* lines 86-94: the loop over adj[node]
Relax_D(stations, node, d, path, neis, k, pq, dist) ==
    IF k > Len(neis) THEN [pq |-> pq, dist |-> dist]
    ELSE LET nei  == neis[k]
             d2   == haversine(stations[node].lat, stations[node].lon,
                               stations[nei].lat, stations[nei].lon)
             newd == d + d2
         IN  IF DistLess_D(newd, dist[nei])
             THEN Relax_D(stations, node, d, path, neis, k + 1,
                          Append(pq, <<newd, nei, Append(path, node)>>),
                          [dist EXCEPT ![nei] = newd])
             ELSE Relax_D(stations, node, d, path, neis, k + 1, pq, dist)

RECURSIVE Search_D(_, _, _, _, _)
\* lines 80-96: the while loop
Search_D(stations, adj, goal, pq, dist) ==
    IF pq = <<>> THEN NoPath
    ELSE LET i    == HeapMinIndex(pq)
             d    == pq[i][1]
             node == pq[i][2]
             path == pq[i][3]
         IN  IF node = goal THEN PathResult(Append(path, node), d)
             ELSE IF node \notin DOMAIN adj THEN Raised("KeyError")
             ELSE LET r == Relax_D(stations, node, d, path, adj[node], 1,
                                   RemoveAt(pq, i), dist)
                  IN  Search_D(stations, adj, goal, r.pq, r.dist)

dijkstra_D(graph, start, goal, blocked) ==
    LET stations == graph.stations
        built    == AdjLoop_D([n \in DOMAIN stations |-> <<>>], graph.edges, 1, blocked)
        dist0    == [n \in DOMAIN stations \cup {start} |->
                        IF n = start THEN 0 ELSE -1]
    IN  IF ~built.ok THEN Raised("KeyError")
        ELSE Search_D(stations, built.adj, goal, <<<<0, start, <<>>>>>>, dist0)

---------------------------------------------------------------------------
(* dijkstra of extreme_ai_sync.py *)

\* safe_station_coord with its default fallback (0.0, 0.0)
safe_station_coord(stations, name, fallback) ==
    IF name \in DOMAIN stations
    THEN <<stations[name].lat, stations[name].lon>>
    ELSE fallback

edge_length_m(stations, u, v) ==
    LET a == safe_station_coord(stations, u, <<0, 0>>)
        b == safe_station_coord(stations, v, <<0, 0>>)
    IN  haversine(a[1], a[2], b[1], b[2])

\* lines 121-130: every station and every name appearing in an edge is a node
Nodes_S(stations, edges) ==
    DOMAIN stations \cup UNION {{edges[i][1], edges[i][2]} : i \in 1..Len(edges)}

RECURSIVE AdjLoop_S(_, _, _, _, _)
\* lines 131-136
AdjLoop_S(stations, adj, edges, i, blocked) ==
    IF i > Len(edges) THEN adj
    ELSE LET u == edges[i][1]
             v == edges[i][2]
         IN  IF IsBlocked(u, v, blocked)
             THEN AdjLoop_S(stations, adj, edges, i + 1, blocked)
             ELSE LET dist == edge_length_m(stations, u, v)
                      a1   == [adj EXCEPT ![u] = Append(@, <<v, dist>>)]
                      a2   == [a1 EXCEPT ![v] = Append(@, <<u, dist>>)]
                  IN  AdjLoop_S(stations, a2, edges, i + 1, blocked)

\* "nxt in seen and seen[nxt] <= nd"; seen maps a node to -1 until it is set
SeenLeq_S(seen, n, d) == seen[n] # -1 /\ seen[n] <= d

RECURSIVE Push_S(_, _, _, _, _, _)
\* lines 148-151
Push_S(d, path, neis, k, pq, seen) ==
    IF k > Len(neis) THEN pq
    ELSE LET nxt == neis[k][1]
             nd  == d + neis[k][2]
         IN  IF SeenLeq_S(seen, nxt, nd)
             THEN Push_S(d, path, neis, k + 1, pq, seen)
             ELSE Push_S(d, path, neis, k + 1,
                         Append(pq, <<nd, nxt, Append(path, nxt)>>), seen)

RECURSIVE Search_S(_, _, _, _)
\* lines 141-152
Search_S(adj, goal, pq, seen) ==
    IF pq = <<>> THEN NoPath
    ELSE LET i    == HeapMinIndex(pq)
             d    == pq[i][1]
             node == pq[i][2]
             path == pq[i][3]
             rest == RemoveAt(pq, i)
         IN  IF node = goal THEN PathResult(path, d)
             ELSE IF SeenLeq_S(seen, node, d) THEN Search_S(adj, goal, rest, seen)
             ELSE LET seen2 == [seen EXCEPT ![node] = d]
                  IN  Search_S(adj, goal,
                               Push_S(d, path, adj[node], 1, rest, seen2), seen2)

dijkstra_S(stations, edges, start, goal, blocked) ==
    LET nodes == Nodes_S(stations, edges)
        adj   == AdjLoop_S(stations, [n \in nodes |-> <<>>], edges, 1, blocked)
    IN  IF start \notin nodes \/ goal \notin nodes THEN NoPath
        ELSE Search_S(adj, goal, <<<<0, start, <<start>>>>>>, [n \in nodes |-> -1])

---------------------------------------------------------------------------
(* dijkstra of extreme_ai_server.py *)

RECURSIVE SumSeq(_, _)
SumSeq(s, i) == IF i > Len(s) THEN 0 ELSE s[i] + SumSeq(s, i + 1)

(* lines 328-333.  environment is None or a mapping with "segments"       *)
(* (given says which); the model keeps, per edge <<u, v>> as written in    *)
(* the edge list, the list of p100 values of the segments whose id starts  *)
(* with "u-v-".                                                            *)
risk_factor_X(u, v, environment) ==
    IF ~environment.given THEN 0
    ELSE IF <<u, v>> \notin DOMAIN environment.segments THEN 0
    ELSE LET seg_risks == environment.segments[<<u, v>>]
         IN  IF seg_risks = <<>> THEN 0
             ELSE SumSeq(seg_risks, 1) \div Len(seg_risks)

\* line 335: weight = d * (1 + risk_factor)
weight_X(d, risk_factor) == d + (d * risk_factor) \div 1000

RECURSIVE AdjLoop_X(_, _, _, _, _, _)
\* lines 324-337; stations[u] of a name that is no station raises KeyError
AdjLoop_X(stations, adj, edges, i, blocked, environment) ==
    IF i > Len(edges) THEN [ok |-> TRUE, adj |-> adj]
    ELSE LET u == edges[i][1]
             v == edges[i][2]
         IN  IF IsBlocked(u, v, blocked)
             THEN AdjLoop_X(stations, adj, edges, i + 1, blocked, environment)
             ELSE IF u \notin DOMAIN stations \/ v \notin DOMAIN stations
                  THEN [ok |-> FALSE, adj |-> adj]
             ELSE LET d  == haversine(stations[u].lat, stations[u].lon,
                                      stations[v].lat, stations[v].lon)
                      w  == weight_X(d, risk_factor_X(u, v, environment))
                      a1 == [adj EXCEPT ![u] = Append(@, <<v, w>>)]
                      a2 == [a1 EXCEPT ![v] = Append(@, <<u, w>>)]
                  IN  AdjLoop_X(stations, a2, edges, i + 1, blocked, environment)

RECURSIVE Push_X(_, _, _, _, _, _)
\* lines 346-348
Push_X(dist, path, neis, k, pq, visited) ==
    IF k > Len(neis) THEN pq
    ELSE LET nxt == neis[k][1]
             w   == neis[k][2]
         IN  IF nxt \in visited
             THEN Push_X(dist, path, neis, k + 1, pq, visited)
             ELSE Push_X(dist, path, neis, k + 1,
                         Append(pq, <<dist + w, nxt, Append(path, nxt)>>), visited)

RECURSIVE Search_X(_, _, _, _)
\* lines 341-349
Search_X(adj, goal, pq, visited) ==
    IF pq = <<>> THEN NoPath
    ELSE LET i    == HeapMinIndex(pq)
             dist == pq[i][1]
             node == pq[i][2]
             path == pq[i][3]
             rest == RemoveAt(pq, i)
         IN  IF node \in visited THEN Search_X(adj, goal, rest, visited)
             ELSE IF node = goal THEN PathResult(path, dist)
             ELSE Search_X(adj, goal,
                           Push_X(dist, path, adj[node], 1, rest, visited \cup {node}),
                           visited \cup {node})

dijkstra_X(stations, edges, start, goal, blocked, environment) ==
    LET built == AdjLoop_X(stations, [n \in DOMAIN stations |-> <<>>], edges, 1,
                           blocked, environment)
    IN  IF ~built.ok THEN Raised("KeyError")
        ELSE IF start \notin DOMAIN stations \/ goal \notin DOMAIN stations THEN NoPath
        ELSE Search_X(built.adj, goal, <<<<0, start, <<start>>>>>>, {})

---------------------------------------------------------------------------
(* Inputs *)

\* Coordinates of the stations a request may declare (units of 1e-5 degree).
StationTable ==
    [n \in {"A", "B", "C", "D"} |->
        CASE n = "A" -> [lat |-> 0,   lon |-> 0]
          [] n = "B" -> [lat |-> 0,   lon |-> 1000]
          [] n = "C" -> [lat |-> 0,   lon |-> 2000]
          [] n = "D" -> [lat |-> 800, lon |-> 1000]]

StationsOf(names) == [n \in names |-> StationTable[n]]

\* Edges a request may list, in the order it lists them.
EdgePool == << <<"A", "B">>, <<"B", "C">>, <<"A", "D">>, <<"D", "C">>,
               <<"C", "A">>, <<"B", "D">> >>

\* Number of edges of EdgePool the Router queries choose from.
NumEdges == 5

RECURSIVE SubSeqOf(_, _, _)
\* the entries of s whose index is in keep, in the order of s
SubSeqOf(s, keep, i) ==
    IF i > Len(s) THEN <<>>
    ELSE IF i \in keep THEN <<s[i]>> \o SubSeqOf(s, keep, i + 1)
    ELSE SubSeqOf(s, keep, i + 1)

RouterEdgeLists == {SubSeqOf(EdgePool, keep, 1) : keep \in SUBSET (1..NumEdges)}

\* With the station set {A, B, C} the edges of EdgePool that name D have an
\* endpoint that is not in the station set.
RouterStationSets == {{"A", "B", "C", "D"}, {"A", "B", "C"}}

RouterBlockedSets == SUBSET {<<"A", "B">>, <<"C", "B">>, <<"A", "C">>}

RouterEnds == {"A", "B", "C", "D"}

\* Risk feeds handed to dijkstra_X: none, all segments at risk 0, and a feed
\* that puts risk on the segments of A-B and B-C.
NoEnvironment == [given |-> FALSE, segments |-> <<>>]

EnvZero(edges) ==
    [given |-> TRUE, segments |-> [e \in {edges[i] : i \in 1..Len(edges)} |-> <<0, 0>>]]

EnvRisky ==
    [given |-> TRUE, segments |-> [e \in {<<"A", "B">>, <<"B", "C">>} |-> <<400, 800>>]]

Environments(edges) == {NoEnvironment, EnvZero(edges), EnvRisky}

---------------------------------------------------------------------------
(* The Router alone: Init draws a query, each action runs one of the three *)
(* dijkstra functions on it.                                               *)

NoResp == [op |-> "none"]

InitRouter ==
    /\ server = "router"
    /\ blocked_edges = {}
    /\ current_graph = [stations |-> <<>>, edges |-> <<>>]
    /\ current_trains = <<>>
    /\ trains_saved_today = 0
    /\ SpawnInit
    /\ resp = NoResp
    /\ \E names \in RouterStationSets, edges \in RouterEdgeLists,
          blocked \in RouterBlockedSets, start \in RouterEnds, goal \in RouterEnds :
          req = [op |-> "dijkstra",
                 graph |-> [stations |-> StationsOf(names), edges |-> edges],
                 start |-> start, goal |-> goal, blocked |-> blocked]

RouterFrame ==
    UNCHANGED <<calls, spawnVars, server, blocked_edges, current_graph, current_trains,
                trains_saved_today, req>>

RouterRun_D ==
    /\ req.op = "dijkstra" /\ resp.op = "none"
    /\ resp' = [op |-> "dijkstra_D", environment |-> NoEnvironment,
                result |-> dijkstra_D(req.graph, req.start, req.goal, req.blocked)]
    /\ RouterFrame

RouterRun_S ==
    /\ req.op = "dijkstra" /\ resp.op = "none"
    /\ resp' = [op |-> "dijkstra_S", environment |-> NoEnvironment,
                result |-> dijkstra_S(req.graph.stations, req.graph.edges,
                                      req.start, req.goal, req.blocked)]
    /\ RouterFrame

RouterRun_X ==
    /\ req.op = "dijkstra" /\ resp.op = "none"
    /\ \E environment \in Environments(req.graph.edges) :
          resp' = [op |-> "dijkstra_X", environment |-> environment,
                   result |-> dijkstra_X(req.graph.stations, req.graph.edges,
                                         req.start, req.goal, req.blocked,
                                         environment)]
    /\ RouterFrame

NextRouter == RouterRun_D \/ RouterRun_S \/ RouterRun_X

SpecRouter == InitRouter /\ [][NextRouter]_vars

---------------------------------------------------------------------------
(* Claims about the Router (checked under SpecRouter) *)

RouterAnswered == resp.op \in {"dijkstra_D", "dijkstra_S", "dijkstra_X"}

EdgeSet(edges) == {edges[i] : i \in 1..Len(edges)}

\* the stations u and v are joined by an edge of the list that is not in
\* the blocked set, in either direction
OpenEdge(edges, blocked, u, v) ==
    /\ <<u, v>> \in EdgeSet(edges) \/ <<v, u>> \in EdgeSet(edges)
    /\ <<u, v>> \notin blocked
    /\ <<v, u>> \notin blocked

\* C1: a path returned by dijkstra never has two consecutive stations u, v
\* with (u, v) or (v, u) in the blocked set it was called with.
C1_RouterAvoidsBlocked ==
    RouterAnswered =>
        \A i \in 1..(Len(resp.result.path) - 1) :
            /\ <<resp.result.path[i], resp.result.path[i + 1]>> \notin req.blocked
            /\ <<resp.result.path[i + 1], resp.result.path[i]>> \notin req.blocked

\* the direct edge from start to goal is in the graph and blocked (written
\* the other way round), and the Router returned a way around it
C1_Witness ==
    /\ RouterAnswered
    /\ req.start = "B" /\ req.goal = "C"
    /\ <<"B", "C">> \in EdgeSet(req.graph.edges)
    /\ <<"C", "B">> \in req.blocked
    /\ resp.result.kind = "path"
    /\ Len(resp.result.path) >= 3

\* every edge of the list joins two stations of the station set
WellFormed(graph) ==
    \A e \in EdgeSet(graph.edges) :
        e[1] \in DOMAIN graph.stations /\ e[2] \in DOMAIN graph.stations

RawDistance(stations, u, v) ==
    haversine(stations[u].lat, stations[u].lon, stations[v].lat, stations[v].lon)

RECURSIVE RawCost(_, _, _)
\* sum of the raw geographic distances of the edges of path, from index i on
RawCost(stations, path, i) ==
    IF i >= Len(path) THEN 0
    ELSE RawDistance(stations, path[i], path[i + 1]) + RawCost(stations, path, i + 1)

MinOrNone(S) == IF S = {} THEN -1 ELSE CHOOSE x \in S : \A y \in S : x <= y

RECURSIVE BestCost(_, _, _, _, _)
\* least raw cost of a simple path from node to goal over the open edges that
\* avoids the stations in visited; -1 when there is none
BestCost(graph, blocked, node, goal, visited) ==
    IF node = goal THEN 0
    ELSE LET nexts == {n \in DOMAIN graph.stations \ visited :
                          OpenEdge(graph.edges, blocked, node, n)}
             costs == {BestCost(graph, blocked, n, goal, visited \cup {n}) +
                       RawDistance(graph.stations, node, n) : n \in
                           {m \in nexts :
                               BestCost(graph, blocked, m, goal, visited \cup {m}) # -1}}
         IN  MinOrNone(costs)

RiskFree(environment) ==
    \/ ~environment.given
    \/ \A e \in DOMAIN environment.segments :
          \A k \in 1..Len(environment.segments[e]) : environment.segments[e][k] = 0

\* the stations of path are all in the station map
KnownPath(stations, path) == \A i \in 1..Len(path) : path[i] \in DOMAIN stations

\* least raw cost of a start-to-goal path over the open edges that join
\* stations of the map; -1 when there is none
Best(graph, blocked, start, goal) ==
    IF start \in DOMAIN graph.stations
    THEN BestCost(graph, blocked, start, goal, {start})
    ELSE -1

\* the start or the goal of the query is not a station of the map
AbsentEnd ==
    \/ req.start \notin DOMAIN req.graph.stations
    \/ req.goal \notin DOMAIN req.graph.stations

\* what C2 says of an answer whose least raw cost is best
ShortestAnswer(graph, result, best) ==
    /\ best # -1 => result.kind = "path"
    /\ result.kind = "path" =>
          /\ KnownPath(graph.stations, result.path)
          /\ result.cost = RawCost(graph.stations, result.path, 1)
          /\ best # -1 => result.cost = best

\* C2: with no risk data or every segment risk 0, the returned path's cost is
\* the sum of the raw distances of its edges, no start-to-goal path over the
\* non-blocked edges has a smaller sum, and when such a path exists one is
\* returned.
C2_ShortestWhenRiskFree ==
    (RouterAnswered /\ RiskFree(resp.environment)) =>
        ShortestAnswer(req.graph, resp.result,
                       Best(req.graph, req.blocked, req.start, req.goal))

\* the same for the queries between two stations of the map, on the graphs
\* whose edges all join stations of the map
C2_OnWellFormedGraphs ==
    (RouterAnswered /\ RiskFree(resp.environment) /\ WellFormed(req.graph)
     /\ ~AbsentEnd) =>
        ShortestAnswer(req.graph, resp.result,
                       Best(req.graph, req.blocked, req.start, req.goal))

\* two routes of different length are open and the feed reports risk 0 on
\* every segment: the Router took the shorter one
C2_Witness ==
    /\ resp.op = "dijkstra_X"
    /\ resp.environment.given
    /\ RiskFree(resp.environment)
    /\ req.graph.edges = << <<"A", "B">>, <<"B", "C">>, <<"A", "D">>, <<"D", "C">> >>
    /\ DOMAIN req.graph.stations = {"A", "B", "C", "D"}
    /\ req.blocked = {}
    /\ req.start = "A" /\ req.goal = "C"
    /\ resp.result.path = <<"A", "B", "C">>

\* C3: when the start or the goal is absent from the station set the Router
\* returns no path (None); it neither raises nor returns a path.
C3_AbsentEndIsNoPath == (RouterAnswered /\ AbsentEnd) => resp.result = NoPath

---------------------------------------------------------------------------
(* Requests and responses of the servers *)

\* A train of a /decide payload (Train, TrainModel).
Train(id, priority, lat, lon, path, progress, speed, source, destination) ==
    [id |-> id, priority |-> priority, lat |-> lat, lon |-> lon, path |-> path,
     progress |-> progress, speed |-> speed, source |-> source,
     destination |-> destination]

(* The JSON answer of /decide.  action, train_id, suggested_path and       *)
(* blocked_edge are fields of the answer (None where the answer has no     *)
(* such field).  The other fields are not sent: pair is the pair of train  *)
(* ids the arbitration acted on, in the order (A, B) of the code, low the  *)
(* id of the train it chose, score the score of that pair, scores the      *)
(* score of every pair evaluated, router what dijkstra produced.           *)
Decision(action, train_id, suggested_path, blocked_edge, pair, low, score, scores, router) ==
    [op |-> "decide", status |-> "ok", action |-> action, train_id |-> train_id,
     suggested_path |-> suggested_path, blocked_edge |-> blocked_edge,
     pair |-> pair, low |-> low, score |-> score, scores |-> scores,
     router |-> router]

NotCalled == [kind |-> "not called", path |-> <<>>, cost |-> 0, error |-> None]

\* An exception that leaves the handler: the caller gets HTTP 500.
ServerError(error, blocked_edge, pair, low, score, scores, router) ==
    [op |-> "decide", status |-> "error", action |-> None, train_id |-> None,
     suggested_path |-> <<>>, blocked_edge |-> blocked_edge,
     pair |-> pair, low |-> low, score |-> score, scores |-> scores,
     router |-> router]

\* Python's seq[i] for an int i: negative indices count from the end
PyIndexOK(seq, i) == -Len(seq) <= i /\ i < Len(seq)
PyIndex(seq, i) == IF i >= 0 THEN seq[i + 1] ELSE seq[Len(seq) + i + 1]

\* Python's int(x / 1000): truncation toward zero
TruncThousandth(x) == IF x >= 0 THEN x \div 1000 ELSE -((-x) \div 1000)

\* Python's math.floor(x / 1000)
FloorThousandth(x) == x \div 1000

---------------------------------------------------------------------------
(* decide of distance_ai_server.py *)

SAFE_DISTANCE_D == 1200

RECURSIVE FirstRisk_D(_, _, _)
\* lines 106-114: the first pair (i, j), i < j, in loop order whose reported
\* positions are closer than SAFE_DISTANCE; <<>> when the loops end
FirstRisk_D(trains, i, j) ==
    IF i > Len(trains) THEN <<>>
    ELSE IF j > Len(trains) THEN FirstRisk_D(trains, i + 1, i + 2)
    ELSE IF haversine(trains[i].lat, trains[i].lon, trains[j].lat, trains[j].lon)
                < SAFE_DISTANCE_D
         THEN <<i, j>>
         ELSE FirstRisk_D(trains, i, j + 1)

\* mutant: the comparison is turned round
low_D_Flipped(A, B) == IF A.priority < B.priority THEN B ELSE A

\* line 118: low = B if A.priority > B.priority else A
low_D(A, B) == IF A.priority > B.priority THEN B ELSE A

\* line 121
idx_D(low) ==
    Min(TruncThousandth(low.progress * (Len(low.path) - 1)), Len(low.path) - 2)

\* mutant: the set is replaced instead of extended
BlockedAfter_D_Reset(blocked, blocked_edge) == {blocked_edge}

\* line 123: blocked_edges.add(blocked_edge)
BlockedAfter_D(blocked, blocked_edge) == blocked \cup {blocked_edge}

\* mutant: the first segment of the path is blocked
blocked_edge_D_First(low) == <<low.path[1], low.path[2]>>

\* line 122
blocked_edge_D(low) ==
    <<PyIndex(low.path, idx_D(low)), PyIndex(low.path, idx_D(low) + 1)>>

\* lines 136-148: the answer once the router has returned
Answer_D(pair, low, blocked_edge, new_path) ==
    IF new_path.kind = "raise"
    THEN ServerError(new_path.error, blocked_edge, pair, low.id, 0, <<>>, new_path)
    ELSE IF new_path.kind = "path"
    THEN Decision("REQUEST_CONFIRMATION", low.id, new_path.path, blocked_edge, pair,
                  low.id, 0, <<>>, new_path)
    ELSE Decision("STOP_BOTH", None, <<>>, blocked_edge, pair, low.id, 0, <<>>,
                  new_path)

\* lines 128-133: the router is given the global set, the new edge in it
Reroute_D(graph, blocked2, pair, low, blocked_edge) ==
    [response |-> Answer_D(pair, low, blocked_edge,
                           dijkstra_D(graph, blocked_edge[1], low.destination,
                                      blocked2)),
     blocked_edges |-> blocked2]

\* lines 121-123: low.path[idx] or low.path[idx + 1] may not exist
Block_D(graph, blocked, pair, low) ==
    IF ~PyIndexOK(low.path, idx_D(low)) \/ ~PyIndexOK(low.path, idx_D(low) + 1)
    THEN [response |-> ServerError("IndexError", <<>>, pair, low.id, 0, <<>>,
                                   NotCalled),
          blocked_edges |-> blocked]
    ELSE Reroute_D(graph, BlockedAfter_D(blocked, blocked_edge_D(low)), pair, low,
                   blocked_edge_D(low))

\* lines 114-148: what is done for the first pair in risk, hit = <<i, j>>
Found_D(trains, graph, blocked, hit) ==
    IF hit = <<>>
    THEN [response |-> Decision("NORMAL", None, <<>>, <<>>, <<>>, None, 0, <<>>,
                                NotCalled),
          blocked_edges |-> blocked]
    ELSE Block_D(graph, blocked, <<trains[hit[1]].id, trains[hit[2]].id>>,
                 low_D(trains[hit[1]], trains[hit[2]]))

(* lines 102-150.  The result holds the answer and the value of the        *)
(* global blocked_edges when the handler ends (it has been extended also   *)
(* when dijkstra raises afterwards).                                       *)
decide_D(trains, graph, blocked) ==
    Found_D(trains, graph, blocked, FirstRisk_D(trains, 1, 2))

---------------------------------------------------------------------------
(* Position prediction and pair score of extreme_ai_sync.py *)

SAFE_DISTANCE_S == 1000
LOOKAHEAD_S == 30
RISK_THRESHOLD == 550
MONTE_SIMS == 100

\* max(float(speed), 0.1) in tenths of km/h
SpeedTenths(speed) == Max(speed * 10, 1)

\* station_coord(i) of predict_future_pos: the fallback is the train's own
\* reported position
station_coord(train, stations, i) ==
    safe_station_coord(stations, train.path[i + 1], <<train.lat, train.lon>>)

RECURSIVE WalkEdges_S(_, _, _, _, _)
(* lines 181-197, distances in millimetres.  Line 190-191 compute          *)
(* ua + (va - va) * ratio, which is ua for every ratio.                    *)
WalkEdges_S(train, stations, remaining, edge_idx, edge_frac) ==
    LET segments == Len(train.path) - 1
    IN  IF remaining > 0 /\ edge_idx < segments
        THEN LET u == train.path[edge_idx + 1]
                 v == train.path[edge_idx + 2]
                 edge_len    == edge_length_m(stations, u, v)
                 rem_on_edge == edge_len * (1000 - edge_frac)
             IN  IF remaining < rem_on_edge
                 THEN LET ua == station_coord(train, stations, edge_idx)
                          va == station_coord(train, stations, edge_idx + 1)
                      IN  <<ua[1] + (va[1] - va[1]), ua[2] + (va[2] - va[2])>>
                 ELSE WalkEdges_S(train, stations, remaining - rem_on_edge,
                                  edge_idx + 1, 0)
        ELSE station_coord(train, stations, Len(train.path) - 1)

\* lines 154-201
predict_future_pos(train, stations, seconds_ahead) ==
    IF Len(train.path) < 2 THEN <<train.lat, train.lon>>
    ELSE LET remaining == (SpeedTenths(train.speed) * seconds_ahead * 250) \div 9
             segments  == Len(train.path) - 1
             scaled    == Min(Max(train.progress, 0), 1000) * segments
             idx       == Min(TruncThousandth(scaled), segments - 1)
             frac      == scaled - 1000 * idx
         IN  WalkEdges_S(train, stations, remaining, idx, frac)

\* braking_distance_m in decimetres: v*v / (2*a), v = speed/3.6,
\* a = max(9.81 * max(0.25, 0.05), 0.1) = 2.4525
braking_distance_m(train) ==
    (SpeedTenths(train.speed) * SpeedTenths(train.speed) * 1000) \div 635688

Clamp01(x) == Max(0, Min(1000, x))

\* line 293
proximity_score(fut_dist) == Max(0, 1000 - (fut_dist * 1000) \div (SAFE_DISTANCE_S * 2))

(* lines 286-294: min(ttc / (LOOKAHEAD * 2), 1) with ttc = fut_dist / rel, *)
(* rel = |vA - vB| + 1e-6.  With equal speeds rel is 1e-6 and the quotient *)
(* is below 1 only for fut_dist below 60 micrometres, that is 0 here.      *)
ttc_ratio(fut_dist, A, B) ==
    LET dv == Abs(SpeedTenths(A.speed) - SpeedTenths(B.speed))
    IN  IF dv = 0 THEN (IF fut_dist = 0 THEN 0 ELSE 1000)
        ELSE Min((fut_dist * 36 * 1000) \div (dv * LOOKAHEAD_S * 2), 1000)

ttc_score(fut_dist, A, B) == Max(0, 1000 - ttc_ratio(fut_dist, A, B))

\* line 295
braking_score(A, B) ==
    Max(0, 1000 - (Min(braking_distance_m(A), braking_distance_m(B)) * 100)
                      \div (SAFE_DISTANCE_S * 2))

(* The risk feed: what compute140_safe hands back.  raises says that       *)
(* compute140Parameters threw (the wrapper then returns three empty maps); *)
(* contribs and weights are the sums of the two maps, in thousandths.      *)
paramRisk(feed) ==
    LET total_w == IF feed.raises THEN 1000 ELSE feed.weights
        contrib == IF feed.raises THEN 0 ELSE feed.contribs
    IN  IF total_w > 0 THEN (contrib * 1000) \div total_w ELSE 0

\* line 297
base_score(fut_dist, A, B) ==
    (33 * proximity_score(fut_dist) + 33 * ttc_score(fut_dist, A, B)
     + 34 * braking_score(A, B)) \div 100

\* lines 302-307: the blend of base score, feed and Monte-Carlo count
blended_score(base, feed, mc) ==
    Clamp01((8 * Clamp01((6 * base + 4 * paramRisk(feed)) \div 10)
             + 2 * ((mc * 1000) \div Max(1, MONTE_SIMS))) \div 10)

\* line 285
fut_dist_S(a, b) == haversine(a[1], a[2], b[1], b[2])

\* lines 282-307: the blended score of the pair (A, B); mc is the count of
\* the MONTE_SIMS samples that exceeded RISK_THRESHOLD
pair_score_S(A, B, stations, feed, mc) ==
    blended_score(base_score(fut_dist_S(predict_future_pos(A, stations, LOOKAHEAD_S),
                                        predict_future_pos(B, stations, LOOKAHEAD_S)),
                             A, B),
                  feed, mc)

---------------------------------------------------------------------------
(* decide of extreme_ai_sync.py *)

NoPair == [score |-> 0, pair |-> <<>>]

\* lines 325-326
Keep_S(highest, i, j, blended) ==
    IF blended > highest.score THEN [score |-> blended, pair |-> <<i, j>>]
    ELSE highest

RECURSIVE Highest_S(_, _, _, _, _, _, _, _)
(* lines 276-329: the loops over i < j.  k numbers the pairs in loop      *)
(* order, mc[k] is the Monte-Carlo count drawn for pair k.  A pair         *)
(* replaces the record only when its score is strictly greater.           *)
Highest_S(trains, stations, feed, mc, i, j, k, highest) ==
    IF i > Len(trains) THEN highest
    ELSE IF j > Len(trains)
         THEN Highest_S(trains, stations, feed, mc, i + 1, i + 2, k, highest)
    ELSE Highest_S(trains, stations, feed, mc, i, j + 1, k + 1,
                   Keep_S(highest, i, j,
                          pair_score_S(trains[i], trains[j], stations, feed, mc[k])))

RECURSIVE Scores_S(_, _, _, _, _, _, _)
\* the "final_score" detail of every pair, in loop order
Scores_S(trains, stations, feed, mc, i, j, k) ==
    IF i > Len(trains) THEN <<>>
    ELSE IF j > Len(trains) THEN Scores_S(trains, stations, feed, mc, i + 1, i + 2, k)
    ELSE <<[pair  |-> <<trains[i].id, trains[j].id>>,
            score |-> pair_score_S(trains[i], trains[j], stations, feed, mc[k])]>>
         \o Scores_S(trains, stations, feed, mc, i, j + 1, k + 1)

\* mutant: the higher priority value loses
low_S_Flipped(A, B) == IF A.priority >= B.priority THEN A ELSE B

\* line 340: low = A if pa <= pb else B
low_S(A, B) == IF A.priority <= B.priority THEN A ELSE B

\* lines 343-349; -1 stands for idx = None
idx_S(low) ==
    IF Len(low.path) >= 2
    THEN LET segs == Len(low.path) - 1
         IN  Min(Max(FloorThousandth(low.progress * segs), 0), segs - 1)
    ELSE -1

\* lines 350-355; <<>> stands for blocked_edge = None
blocked_edge_S(low) ==
    IF idx_S(low) # -1 THEN <<low.path[idx_S(low) + 1], low.path[idx_S(low) + 2]>>
    ELSE <<>>

\* lines 358-360: the set handed to the router is built afresh in the call
blocked_set_S(blocked_edge) == IF blocked_edge # <<>> THEN {blocked_edge} ELSE {}

\* mutant: the threshold is never reached
AtRisk_S_Never(highest) == FALSE

\* line 332
AtRisk_S(highest) == highest.score >= RISK_THRESHOLD /\ highest.pair # <<>>

\* line 362: the station the router starts from
start_S(low) == IF idx_S(low) # -1 THEN low.path[idx_S(low) + 1] ELSE low.source

\* lines 367-381: the answer once the router has returned
Answer_S(pair, low, blocked_edge, score, scores, new_path) ==
    IF new_path.kind = "path"
    THEN Decision("REQUEST_CONFIRMATION", low.id, new_path.path, blocked_edge, pair,
                  low.id, score, scores, new_path)
    ELSE Decision("STOP_BOTH", low.id, <<>>, blocked_edge, pair, low.id, score,
                  scores, new_path)

(* lines 343-365.  An exception of dijkstra is caught (lines 363-365) and  *)
(* leaves new_path = None.                                                 *)
Reroute_S(graph, pair, low, blocked_edge, score, scores) ==
    Answer_S(pair, low, blocked_edge, score, scores,
             dijkstra_S(graph.stations, graph.edges, start_S(low), low.destination,
                        blocked_set_S(blocked_edge)))

\* lines 332-391: what is done with the highest record
Act_S(trains, graph, highest, scores) ==
    IF AtRisk_S(highest)
    THEN Reroute_S(graph,
                   <<trains[highest.pair[1]].id, trains[highest.pair[2]].id>>,
                   low_S(trains[highest.pair[1]], trains[highest.pair[2]]),
                   blocked_edge_S(low_S(trains[highest.pair[1]],
                                        trains[highest.pair[2]])),
                   highest.score, scores)
    ELSE Decision("NORMAL", None, <<>>, <<>>, <<>>, None, highest.score, scores,
                  NotCalled)

\* lines 252-391
decide_S(trains, graph, feed, mc) ==
    Act_S(trains, graph,
          Highest_S(trains, graph.stations, feed, mc, 1, 2, 1, NoPair),
          Scores_S(trains, graph.stations, feed, mc, 1, 2, 1))

---------------------------------------------------------------------------
(* decide of extreme_ai_server.py *)

LOOKAHEAD_X == 50
CRITICAL_TTC == 18

\* stations.get(name, {"lat": 20, "lon": 70})
station_or_default(stations, name) ==
    IF name \in DOMAIN stations THEN stations[name]
    ELSE [lat |-> 2000000, lon |-> 7000000]

\* lines 378-379, in thousandths: (progress + speed / 3600 * LOOKAHEAD / 100) % 1
future_progress(train) ==
    (train.progress + (train.speed * 10 * LOOKAHEAD_X) \div 3600) % 1000

\* lines 380-381: min(int(prog * segs), segs - 1)
idx_X(train) ==
    LET segs == Len(train.path) - 1
    IN  Min(TruncThousandth(future_progress(train) * segs), segs - 1)

\* lines 382-383, in thousandths
frac_X(train) == future_progress(train) * (Len(train.path) - 1) - 1000 * idx_X(train)

\* a + (b - a) * frac for frac in thousandths
Lerp(a, b, frac) ==
    IF Abs(b - a) > 1000000 THEN a + ((b - a) \div 1000) * frac
    ELSE a + ((b - a) * frac) \div 1000

\* lines 385-395: whether path[idx] and path[idx + 1] exist
FutureOK_X(train) ==
    PyIndexOK(train.path, idx_X(train)) /\ PyIndexOK(train.path, idx_X(train) + 1)

\* lines 392-395
Between(P1, P2, frac) == <<Lerp(P1.lat, P2.lat, frac), Lerp(P1.lon, P2.lon, frac)>>

future_pos_X(train, stations) ==
    Between(station_or_default(stations, PyIndex(train.path, idx_X(train))),
            station_or_default(stations, PyIndex(train.path, idx_X(train) + 1)),
            frac_X(train))

(* lines 398-399, in tenths of a second:                                   *)
(* ttc = max(0.1, dist / (|sA - sB| * 1000 / 3600 + 1))                    *)
ttc_of(dist, rel) ==
    IF dist > 1000000 THEN Max(1, (dist \div rel) * 360)
    ELSE Max(1, (dist * 360) \div rel)

\* line 397
dist_X(a, b) == haversine(a[1], a[2], b[1], b[2])

ttc_X(A, B, stations) ==
    ttc_of(dist_X(future_pos_X(A, stations), future_pos_X(B, stations)),
           Abs(A.speed - B.speed) * 10 + 36)

(* line 401 in units of 1/1200: params has the keys p1..p140 only, so      *)
(* params.get("meta_risk_index", 0.5) is 0.5 and                           *)
(* risk = 0.25 + 0.5 * (1 - min(ttc / 60, 1)).                             *)
risk_X(ttc) == 300 + (600 - Min(ttc, 600))

NoCollision == [risk |-> 0, pair |-> <<>>, ttc |-> -1, error |-> None]

\* lines 403-406
Keep_X(highest, i, j, ttc) ==
    IF risk_X(ttc) > highest.risk
    THEN [risk |-> risk_X(ttc), pair |-> <<i, j>>, ttc |-> ttc, error |-> None]
    ELSE highest

RECURSIVE Highest_X(_, _, _, _, _)
\* lines 372-406; ttc = -1 stands for float('inf')
Highest_X(trains, stations, i, j, highest) ==
    IF i > Len(trains) THEN highest
    ELSE IF j > Len(trains) THEN Highest_X(trains, stations, i + 1, i + 2, highest)
    ELSE IF ~FutureOK_X(trains[i]) \/ ~FutureOK_X(trains[j])
         THEN [highest EXCEPT !.error = "IndexError"]
    ELSE Highest_X(trains, stations, i, j + 1,
                   Keep_X(highest, i, j, ttc_X(trains[i], trains[j], stations)))

\* mutant: the higher priority value loses
low_X_Flipped(A, B) == IF A.priority >= B.priority THEN A ELSE B

\* line 417
low_X(A, B) == IF A.priority <= B.priority THEN A ELSE B

\* line 415
Critical_X(highest) ==
    highest.pair # <<>> /\ highest.ttc # -1 /\ highest.ttc < CRITICAL_TTC * 10

\* lines 423-432: the answer once the router has returned
Answer_X(pair, low, blocked_edge, risk, alt_path) ==
    IF alt_path.kind = "raise"
    THEN ServerError(alt_path.error, blocked_edge, pair, low.id, risk, <<>>, alt_path)
    ELSE IF alt_path.kind = "path"
    THEN Decision("REQUEST_CONFIRMATION", low.id, alt_path.path, blocked_edge, pair,
                  low.id, risk, <<>>, alt_path)
    ELSE Decision("EMERGENCY_STOP", low.id, <<>>, blocked_edge, pair, low.id, risk,
                  <<>>, alt_path)

\* lines 418-432: the counter has been incremented when low["path"][1] raises
Reroute_X(graph, feed, pair, low, risk) ==
    IF Len(low.path) < 2
    THEN [response |-> ServerError("IndexError", <<>>, pair, low.id, risk, <<>>,
                                   NotCalled),
          saved |-> 1]
    ELSE [response |->
             Answer_X(pair, low, <<low.path[1], low.path[2]>>, risk,
                      dijkstra_X(graph.stations, graph.edges, low.path[1],
                                 low.destination, {<<low.path[1], low.path[2]>>},
                                 feed.environment)),
          saved |-> 1]

\* lines 408-438: what is done with the riskiest pair
Act_X(trains, graph, feed, highest) ==
    IF highest.error # None
    THEN [response |-> ServerError(highest.error, <<>>, <<>>, None, 0, <<>>,
                                   NotCalled),
          saved |-> 0]
    ELSE IF Critical_X(highest)
    THEN Reroute_X(graph, feed,
                   <<trains[highest.pair[1]].id, trains[highest.pair[2]].id>>,
                   low_X(trains[highest.pair[1]], trains[highest.pair[2]]),
                   highest.risk)
    ELSE [response |-> Decision("NORMAL", None, <<>>, <<>>, <<>>, None,
                                highest.risk, <<>>, NotCalled),
          saved |-> 0]

(* lines 353-438.  feed is what compute140Parameters does in this call:    *)
(* it raises, or it returns the environment handed to the router.  The     *)
(* result holds the answer and whether line 418 (trains_saved_today += 1)  *)
(* ran before the handler ended.                                           *)
decide_X(trains, graph, feed) ==
    IF feed.raises
    THEN [response |-> ServerError("compute140Parameters", <<>>, <<>>, None, 0,
                                   <<>>, NotCalled),
          saved |-> 0]
    ELSE Act_X(trains, graph, feed,
               Highest_X(trains, graph.stations, 1, 2, NoCollision))

---------------------------------------------------------------------------
(* apply_reroute: distance_ai_server.py 155-158, extreme_ai_sync.py 394-398 *)

apply_reroute(train_id, new_path) ==
    [op |-> "apply_reroute", status |-> "ok", train_id |-> train_id,
     new_path |-> new_path]

---------------------------------------------------------------------------
(* The servers: requests drawn from small pools *)

Graph(names, edges) == [stations |-> StationsOf(names), edges |-> edges]

\* every station and the five tracks between them
G_full ==
    Graph({"A", "B", "C", "D"},
          <<<<"A", "B">>, <<"B", "C">>, <<"A", "D">>, <<"D", "C">>, <<"B", "D">>>>)

\* a single line
G_line == Graph({"A", "B", "C"}, <<<<"A", "B">>, <<"B", "C">>>>)

\* station B and its tracks are gone
G_noB == Graph({"A", "C", "D"}, <<<<"A", "D">>, <<"D", "C">>>>)

\* station B is gone from the station map, its tracks are still listed
G_ghostB ==
    Graph({"A", "C", "D"},
          <<<<"A", "B">>, <<"B", "C">>, <<"A", "D">>, <<"D", "C">>>>)

MainGraphs == {G_full, G_line, G_noB, G_ghostB}

\* distance_ai_server.py: T1-T2 and T2-T3 are closer than SAFE_DISTANCE
Pool_D ==
    {Train("T1", 2, 0, 0, <<"A", "B", "C">>, 0, 100, "A", "C"),
     Train("T2", 1, 0, 950, <<"C", "B", "A">>, 500, 100, "C", "A"),
     Train("T3", 1, 0, 2000, <<"C", "B", "A">>, 0, 100, "C", "A")}

\* extreme_ai_sync.py: the three are predicted at or next to station B
Pool_S ==
    {Train("T1", 2, 0, 0, <<"A", "B", "C">>, 0, 140, "A", "C"),
     Train("T2", 1, 0, 2000, <<"C", "B", "A">>, 0, 140, "C", "A"),
     Train("T3", 1, 800, 1000, <<"D", "B">>, 0, 140, "D", "B")}

\* extreme_ai_server.py: the three are about to meet at station C
Pool_X ==
    {Train("T1", 1, 0, 0, <<"D", "C">>, 980, 140, "D", "C"),
     Train("T2", 1, 0, 0, <<"C", "B">>, 0, 100, "C", "B"),
     Train("T3", 2, 0, 0, <<"C", "B", "A">>, 0, 140, "C", "A")}

MaxRoster == 3

\* the rosters: the sequences without repetition of up to MaxRoster trains
Rosters(pool) ==
    UNION {{r \in [1..n -> pool] : \A i, j \in 1..n : i # j => r[i] # r[j]} :
           n \in 0..MaxRoster}

NumPairs(n) == (n * (n - 1)) \div 2

\* Monte-Carlo counts a call may draw for a pair: no sample or every sample
\* above the threshold
McLevels == {0, MONTE_SIMS}

FeedRaises == [raises |-> TRUE, contribs |-> 0, weights |-> 0,
               environment |-> NoEnvironment]

Feed(contribs, weights, environment) ==
    [raises |-> FALSE, contribs |-> contribs, weights |-> weights,
     environment |-> environment]

Feeds_S == {FeedRaises, Feed(500, 1000, NoEnvironment)}

\* compute140Parameters raises, or returns an environment with a risk for
\* every segment
Feeds_X(edges) ==
    {FeedRaises} \cup {Feed(0, 1000, env) : env \in Environments(edges) \ {NoEnvironment}}

MaxSaved == 2

ApplyPaths == {<<"A", "D", "C">>, <<"A", "Z">>}

Servers == {"distance", "sync", "server"}

Init ==
    /\ server \in Servers
    /\ blocked_edges = {}
    /\ current_graph = Graph({}, <<>>)
    /\ current_trains = <<>>
    /\ trains_saved_today = 0
    /\ SpawnInit
    /\ req = [op |-> "none"]
    /\ resp = NoResp

\* POST /decide of distance_ai_server.py with a roster and a graph of the
\* given sets
DecideOn_D(rosters, graphs) ==
    /\ server = "distance"
    /\ \E trains \in rosters, graph \in graphs :
         LET out == decide_D(trains, graph, blocked_edges)
         IN  /\ req' = [op |-> "decide", trains |-> trains, graph |-> graph]
             /\ resp' = out.response
             /\ blocked_edges' = out.blocked_edges
    /\ UNCHANGED <<calls, spawnVars, server, current_graph, current_trains, trains_saved_today>>

\* the three stations of the line joined in a triangle
G_triangle == Graph({"A", "B", "C"}, <<<<"A", "B">>, <<"B", "C">>, <<"C", "A">>>>)

\* POST /decide of distance_ai_server.py
Decide_D == DecideOn_D(Rosters(Pool_D), MainGraphs \cup {G_triangle})

\* the requests POST /decide of extreme_ai_sync.py is given, each with the
\* Monte-Carlo counts its call draws
Requests_S ==
    {[op |-> "decide", trains |-> trains, graph |-> graph, feed |-> feed, mc |-> mc] :
        <<trains, graph, feed, mc>> \in
            {q \in Rosters(Pool_S) \X MainGraphs \X Feeds_S
                   \X UNION {[1..k -> McLevels] : k \in 0..NumPairs(MaxRoster)} :
                DOMAIN q[4] = 1..NumPairs(Len(q[1]))}}

\* decide of extreme_ai_sync.py on each of them
Answers_S == [r \in Requests_S |-> decide_S(r.trains, r.graph, r.feed, r.mc)]

\* POST /decide of extreme_ai_sync.py with a request of the given set
DecideOn_S(requests) ==
    /\ server = "sync"
    /\ \E r \in requests :
         /\ req' = r
         /\ resp' = Answers_S[r]
         /\ current_graph' = r.graph
         /\ current_trains' = r.trains
    /\ UNCHANGED <<calls, spawnVars, server, blocked_edges, trains_saved_today>>

\* POST /decide of extreme_ai_sync.py
Decide_S == DecideOn_S(Requests_S)

\* the requests POST /decide of extreme_ai_server.py is given, each with what
\* compute140Parameters does in its call
Requests_X ==
    {[op |-> "decide", trains |-> q[1], graph |-> q[2], feed |-> q[3]] :
        q \in {q \in Rosters(Pool_X) \X MainGraphs
                     \X UNION {Feeds_X(g.edges) : g \in MainGraphs} :
                  q[3] \in Feeds_X(q[2].edges)}}

\* decide of extreme_ai_server.py on each of them
Answers_X == [r \in Requests_X |-> decide_X(r.trains, r.graph, r.feed)]

\* POST /decide of extreme_ai_server.py
Decide_X ==
    /\ server = "server"
    /\ \E r \in Requests_X :
         /\ trains_saved_today + Answers_X[r].saved <= MaxSaved
         /\ req' = r
         /\ resp' = Answers_X[r].response
         /\ current_graph' = r.graph
         /\ current_trains' = r.trains
         /\ trains_saved_today' = trains_saved_today + Answers_X[r].saved
    /\ UNCHANGED <<calls, spawnVars, server, blocked_edges>>

\* mutant: apply_reroute forgets the blocked edges and the spawned trains
ApplyReroute_Clearing ==
    /\ server \in {"distance", "sync"}
    /\ \E train_id \in {"T1", "T2"}, new_path \in ApplyPaths :
         /\ req' = [op |-> "apply_reroute", train_id |-> train_id,
                    new_path |-> new_path]
         /\ resp' = apply_reroute(train_id, new_path)
    /\ blocked_edges' = {}
    /\ spawned_trains' = <<>>
    /\ UNCHANGED <<calls, max_trains, spawn_enabled, health, spawner, server, current_graph,
                   current_trains, trains_saved_today>>

\* mutant: apply_reroute releases the blocked edges
ApplyReroute_Releasing ==
    /\ server \in {"distance", "sync"}
    /\ \E train_id \in {"T1", "T2"}, new_path \in ApplyPaths :
         /\ req' = [op |-> "apply_reroute", train_id |-> train_id,
                    new_path |-> new_path]
         /\ resp' = apply_reroute(train_id, new_path)
    /\ blocked_edges' = {}
    /\ UNCHANGED <<calls, spawnVars, server, current_graph, current_trains,
                   trains_saved_today>>

\* POST /apply_reroute of distance_ai_server.py and extreme_ai_sync.py
ApplyReroute ==
    /\ server \in {"distance", "sync"}
    /\ \E train_id \in {"T1", "T2"}, new_path \in ApplyPaths :
         /\ req' = [op |-> "apply_reroute", train_id |-> train_id,
                    new_path |-> new_path]
         /\ resp' = apply_reroute(train_id, new_path)
    /\ UNCHANGED <<calls, spawnVars, server, blocked_edges, current_graph, current_trains,
                   trains_saved_today>>

Next == Decide_D \/ Decide_S \/ Decide_X \/ ApplyReroute

Spec == Init /\ [][Next]_vars

\* distance_ai_server.py alone
InitDistance == Init /\ server = "distance"

NextDistance == Decide_D \/ ApplyReroute

SpecDistance == InitDistance /\ [][NextDistance]_vars

---------------------------------------------------------------------------
(* The losing agent anywhere on its path: decide of distance_ai_server.py  *)
(* on rosters of two agents, and the reroute step of the two other servers *)
(* on a losing agent, the agent drawn with any progress value.             *)

EdgePaths == {<<"A", "B">>, <<"A", "B", "C">>, <<"C", "B", "A">>}

\* progress values of a payload, in thousandths: below 0, at the start, on
\* the second segment of three, above 1
EdgeProgress == {-500, 0, 600, 1500}

\* the agents of priority 1 at station B
EdgeLows ==
    {Train("T2", 1, 0, 1000, path, progress, 100, path[1], path[Len(path)]) :
        path \in EdgePaths, progress \in EdgeProgress}

\* the agents of priority 2: one at station B, one a hundred kilometres away
EdgeOthers ==
    {Train("T1", 2, 0, lon, <<"A", "B", "C">>, 0, 100, "A", "C") :
        lon \in {1000, 100000}}

EdgeRosters == {<<other, low>> : other \in EdgeOthers, low \in EdgeLows}

EdgeGraphs == {G_full, G_line}

\* POST /decide of distance_ai_server.py on these rosters
DecideEdge_D == DecideOn_D(EdgeRosters, EdgeGraphs)

\* extreme_ai_sync.py lines 342-381: decide from the choice of the losing
\* agent on, for a pair at the threshold
RerouteEdge_S ==
    /\ server = "sync"
    /\ \E trains \in EdgeRosters, graph \in EdgeGraphs :
         /\ req' = [op |-> "decide", trains |-> trains, graph |-> graph]
         /\ resp' = Reroute_S(graph, <<trains[1].id, trains[2].id>>,
                              low_S(trains[2], trains[1]),
                              blocked_edge_S(low_S(trains[2], trains[1])),
                              RISK_THRESHOLD, <<>>)
    /\ UNCHANGED <<calls, spawnVars, server, blocked_edges, current_graph, current_trains,
                   trains_saved_today>>

\* extreme_ai_server.py lines 416-432: decide from the choice of the losing
\* agent on, for a critical pair
RerouteEdge_X ==
    /\ server = "server"
    /\ trains_saved_today < MaxSaved
    /\ \E trains \in EdgeRosters, graph \in EdgeGraphs :
         LET out == Reroute_X(graph, Feed(0, 1000, EnvZero(graph.edges)),
                              <<trains[1].id, trains[2].id>>,
                              low_X(trains[2], trains[1]),
                              risk_X(CRITICAL_TTC * 10 - 1))
         IN  /\ req' = [op |-> "decide", trains |-> trains, graph |-> graph]
             /\ resp' = out.response
             /\ trains_saved_today' = trains_saved_today + out.saved
    /\ UNCHANGED <<calls, spawnVars, server, blocked_edges, current_graph, current_trains>>

NextEdge == DecideEdge_D \/ RerouteEdge_S \/ RerouteEdge_X

SpecEdge == Init /\ [][NextEdge]_vars

---------------------------------------------------------------------------
(* Position prediction alone: predict_future_pos of extreme_ai_sync.py and *)
(* the future position computed inside decide of extreme_ai_server.py,     *)
(* applied to one agent.                                                   *)

\* progress values in thousandths
PredictProgress == {0, 250, 500, 900, 990, 1000}

\* km/h
PredictSpeeds == {0, 50, 100}

\* agents reported at a position that is no station of the map
PredictTrains ==
    {Train("T1", 1, 500, 500, path, progress, speed, path[1], path[Len(path)]) :
        path \in EdgePaths, progress \in PredictProgress, speed \in PredictSpeeds}

\* seconds_ahead of predict_future_pos; decide passes LOOKAHEAD_S
PredictSeconds == {10, LOOKAHEAD_S, 60, 200}

InitPredict ==
    /\ server \in {"sync", "server"}
    /\ blocked_edges = {}
    /\ current_graph = [stations |-> <<>>, edges |-> <<>>]
    /\ current_trains = <<>>
    /\ trains_saved_today = 0
    /\ SpawnInit
    /\ resp = NoResp
    /\ \E train \in PredictTrains,
          seconds \in IF server = "sync" THEN PredictSeconds ELSE {LOOKAHEAD_X} :
          req = [op |-> "predict", train |-> train,
                 stations |-> G_full.stations, seconds |-> seconds]

\* predict_future_pos(train, stations, seconds_ahead)
Predict_S ==
    /\ server = "sync" /\ req.op = "predict" /\ resp.op = "none"
    /\ resp' = [op |-> "predict",
                pos |-> predict_future_pos(req.train, req.stations, req.seconds)]
    /\ RouterFrame

\* extreme_ai_server.py lines 376-395 for one agent of the pair
Predict_X ==
    /\ server = "server" /\ req.op = "predict" /\ resp.op = "none"
    /\ FutureOK_X(req.train)
    /\ resp' = [op |-> "predict", pos |-> future_pos_X(req.train, req.stations)]
    /\ RouterFrame

NextPredict == Predict_S \/ Predict_X

SpecPredict == InitPredict /\ [][NextPredict]_vars

---------------------------------------------------------------------------
(* decide of extreme_ai_sync.py on two agents far from each other *)

\* two lines fifty kilometres apart
G_far ==
    [stations |-> [n \in {"A", "B", "C", "D"} |->
                      CASE n = "A" -> [lat |-> 0, lon |-> 0]
                        [] n = "B" -> [lat |-> 0, lon |-> 1000]
                        [] n = "C" -> [lat |-> 0, lon |-> 50000]
                        [] n = "D" -> [lat |-> 0, lon |-> 51000]],
     edges |-> <<<<"A", "B">>, <<"C", "D">>>>]

\* km/h; 0 is raised to 0.1 by decide
PairSpeeds == {0, 10, 100, 140}

\* one agent on each line, with the same speed and the same priority
PairRosters ==
    {<<Train("T1", priority, 0, progress, <<"A", "B">>, progress, speed, "A", "B"),
       Train("T2", priority, 0, 50000, <<"C", "D">>, 0, speed, "C", "D")>> :
        priority \in {1, 2}, progress \in {0, 500}, speed \in PairSpeeds}

\* the feed raises, or contributes 0, 0.5 or 1
PairFeeds ==
    {FeedRaises} \cup {Feed(contribs, 1000, NoEnvironment) : contribs \in {0, 500, 1000}}

\* how many of the MONTE_SIMS samples exceed RISK_THRESHOLD
PairMc == {0, MONTE_SIMS \div 2, MONTE_SIMS}

InitPair ==
    /\ server = "sync"
    /\ blocked_edges = {}
    /\ current_graph = Graph({}, <<>>)
    /\ current_trains = <<>>
    /\ trains_saved_today = 0
    /\ SpawnInit
    /\ resp = NoResp
    /\ \E trains \in PairRosters, feed \in PairFeeds, mc \in PairMc :
          req = [op |-> "decide", trains |-> trains, graph |-> G_far,
                 feed |-> feed, mc |-> <<mc>>]

\* POST /decide of extreme_ai_sync.py with the request drawn
DecidePair_S ==
    /\ req.op = "decide" /\ resp.op = "none"
    /\ resp' = decide_S(req.trains, req.graph, req.feed, req.mc)
    /\ current_graph' = req.graph
    /\ current_trains' = req.trains
    /\ UNCHANGED <<calls, spawnVars, server, blocked_edges, trains_saved_today, req>>

SpecPair == InitPair /\ [][DecidePair_S]_vars

---------------------------------------------------------------------------
(* computeNetworkLoadParameters.py.  A train is a dict: a function whose   *)
(* domain holds the keys it has.  Values in [0, 1] are in thousandths.     *)
(* Of the twenty parameters of a result entry the model keeps p41, p42,    *)
(* p43 and p53; the others are arithmetic on the same counts.              *)

HasKey(t, key) == key \in DOMAIN t

\* t.get("path", [])
path_or_empty(t) == IF HasKey(t, "path") THEN t.path ELSE <<>>

SetMax(S) == CHOOSE m \in S : \A n \in S : n <= m

\* lines 36-39: station_load[name]
station_load(trains, name) ==
    Cardinality({i \in 1..Len(trains) :
                    HasKey(trains[i], "source") /\ trains[i].source = name})

\* line 42
max_station_load(trains) ==
    IF \E i \in 1..Len(trains) : HasKey(trains[i], "source")
    THEN SetMax({station_load(trains, trains[i].source) :
                    i \in {k \in 1..Len(trains) : HasKey(trains[k], "source")}})
    ELSE 1

\* the segments of all paths, as <<train index, segment index>>
Segments(trains) ==
    UNION {{<<i, k>> : k \in 1..(Len(path_or_empty(trains[i])) - 1)} :
              i \in 1..Len(trains)}

\* tuple(sorted([a, b])) as the set of the two names
SegmentKey(trains, seg) ==
    {path_or_empty(trains[seg[1]])[seg[2]], path_or_empty(trains[seg[1]])[seg[2] + 1]}

\* lines 46-53: edge_load[key]
edge_load(trains, key) ==
    Cardinality({seg \in Segments(trains) : SegmentKey(trains, seg) = key})

\* line 55
max_edge_load(trains) ==
    IF Segments(trains) # {}
    THEN SetMax({edge_load(trains, SegmentKey(trains, seg)) : seg \in Segments(trains)})
    ELSE 1

\* line 62
avg_congestion(trains, edges) == (Len(trains) * 1000) \div Max(1, Len(edges))

\* line 75
p41(trains, i) ==
    IF HasKey(trains[i], "source")
    THEN (station_load(trains, trains[i].source) * 1000) \div max_station_load(trains)
    ELSE 0

\* lines 80-87
p42(trains, i) ==
    IF Len(path_or_empty(trains[i])) > 1
    THEN SumSeq([k \in 1..(Len(path_or_empty(trains[i])) - 1) |->
                    (edge_load(trains, SegmentKey(trains, <<i, k>>)) * 1000)
                        \div max_edge_load(trains)], 1)
            \div (Len(path_or_empty(trains[i])) - 1)
    ELSE 0

\* line 93
p43(trains, edges) == Min(1000, avg_congestion(trains, edges) \div 10)

\* lines 156-157, reached only when every train has the key "source"
p53(trains, stations) ==
    Min(1000, (Cardinality({trains[i].source : i \in 1..Len(trains)}) * 1000)
                \div Max(1, Len(stations)))

\* lines 206-211: the entry of train i
LoadEntry(trains, stations, edges, i) ==
    [p41 |-> p41(trains, i), p42 |-> p42(trains, i), p43 |-> p43(trains, edges),
     p53 |-> p53(trains, stations)]

\* results[tid] is assigned once per train in list order: the last train of an
\* id keeps the entry
LastWithId(trains, tid) ==
    SetMax({i \in 1..Len(trains) : trains[i].id = tid})

LoadResult(kind, results, error) == [op |-> "load", kind |-> kind, results |-> results, error |-> error]

(* lines 16-213.  Line 156 evaluates t["source"] for every train of the    *)
(* list, inside the loop over the trains: with one train or more, a train  *)
(* without that key raises KeyError in the first iteration.                *)
compute_network_load_parameters(trains, stations, edges) ==
    IF trains # <<>> /\ \E i \in 1..Len(trains) : ~HasKey(trains[i], "source")
    THEN LoadResult("raise", <<>>, "KeyError")
    ELSE LoadResult("ok",
                    [tid \in {trains[i].id : i \in 1..Len(trains)} |->
                        LoadEntry(trains, stations, edges, LastWithId(trains, tid))],
                    None)

\* the train dicts of the calls: with and without "source" and "path"
LoadTrains ==
    {[id |-> "T1", source |-> "A", path |-> <<"A", "B">>],
     [id |-> "T2", source |-> "B", path |-> <<"B", "A">>],
     [id |-> "T1", source |-> "A"],
     [id |-> "T2", source |-> "B"],
     [id |-> "T1", path |-> <<"A", "B">>],
     [id |-> "T2", path |-> <<"B", "A">>],
     [id |-> "T2", source |-> "A", path |-> <<"A", "B", "C">>]}

MaxLoadTrains == 2

LoadTrainLists == UNION {[1..n -> LoadTrains] : n \in 0..MaxLoadTrains}

LoadStations == {<<>>, <<"A", "B">>}

LoadEdges == {<<>>, <<[source |-> "A", target |-> "B"]>>}

InitLoad ==
    /\ server = "load"
    /\ blocked_edges = {}
    /\ current_graph = Graph({}, <<>>)
    /\ current_trains = <<>>
    /\ trains_saved_today = 0
    /\ SpawnInit
    /\ resp = NoResp
    /\ \E trains \in LoadTrainLists, stations \in LoadStations, edges \in LoadEdges :
          req = [op |-> "load", trains |-> trains, stations |-> stations,
                 edges |-> edges]

\* one call of compute_network_load_parameters
ComputeLoad ==
    /\ req.op = "load" /\ resp.op = "none"
    /\ resp' = compute_network_load_parameters(req.trains, req.stations, req.edges)
    /\ RouterFrame

SpecLoad == InitLoad /\ [][ComputeLoad]_vars

---------------------------------------------------------------------------
(* The world state of extreme_ai_sync.py under concurrent calls: /sync,    *)
(* /decide, /apply_reroute and /spawn/toggle are single steps; /health and *)
(* the spawn_worker thread read the global current_graph more than once    *)
(* and are split at these reads.  No lock guards the globals.              *)
(* distance_ai_server.py runs /decide and /apply_reroute.                  *)

\* lines 415-427, coordinates in units of 0.00001 degree
DefaultGraph ==
    [stations |-> [n \in {"A", "B", "C", "D", "E", "F"} |->
                      CASE n = "A" -> [lat |-> 2860000, lon |-> 7720000]
                        [] n = "B" -> [lat |-> 2800000, lon |-> 7800000]
                        [] n = "C" -> [lat |-> 2690000, lon |-> 8090000]
                        [] n = "D" -> [lat |-> 2750000, lon |-> 7950000]
                        [] n = "E" -> [lat |-> 2720000, lon |-> 7880000]
                        [] n = "F" -> [lat |-> 2650000, lon |-> 7990000]],
     edges |-> <<<<"A", "C">>, <<"A", "B">>, <<"B", "D">>, <<"D", "C">>,
                 <<"B", "E">>, <<"E", "F">>, <<"F", "C">>>>]

\* the graphs /sync is given: none, a line of three stations and two tracks,
\* four stations and five tracks
SyncGraphs == {Graph({}, <<>>), G_line, G_full}

\* current_graph.get("stations") is truthy
HasStations(graph) == DOMAIN graph.stations # {}

\* lines 430-433: the station names generate_stress_trains chooses from
StressStations(g) ==
    IF HasStations(g) THEN DOMAIN g.stations ELSE {"A", "B", "C", "D", "E", "F"}

\* the names random.choice returns in the model
SpawnPicks == {"A", "B"}

(* lines 429-462 for count = 1: the train built from the choices s and d   *)
(* of random.choice; the other random values are fixed (speed 100,         *)
(* progress 0, priority 1).                                                *)
generate_stress_trains(g, s, d) ==
    Train("ST1", 1, safe_station_coord(g.stations, s, <<0, 0>>)[1],
          safe_station_coord(g.stations, s, <<0, 0>>)[2], <<s, d>>, 0, 100, s, d)

MaxSpawned == 2

\* the /decide requests of the world: at most one agent, a feed that raises
WorldRequests_S ==
    {r \in Requests_S : /\ Len(r.trains) <= 1 /\ r.feed.raises
                        /\ r.graph \in {G_line, G_full}
                        /\ \A i \in 1..Len(r.trains) : r.trains[i].id = "T1"}

InitWorld ==
    /\ server \in {"distance", "sync"}
    /\ blocked_edges = {}
    /\ current_graph = Graph({}, <<>>)
    /\ current_trains = <<>>
    /\ trains_saved_today = 0
    /\ SpawnInit
    /\ req = [op |-> "none"]
    /\ resp = NoResp

DecideWorld_S == DecideOn_S(WorldRequests_S)

\* POST /sync, lines 476-488: one assignment to the global
SyncGraphOn(graphs) ==
    /\ server = "sync"
    /\ \E graph \in graphs :
         /\ current_graph' = graph
         /\ req' = [op |-> "sync", graph |-> graph]
         /\ resp' = [op |-> "sync", status |-> "synced",
                     stations_count |-> Cardinality(DOMAIN graph.stations),
                     edges_count |-> Len(graph.edges)]
    /\ UNCHANGED <<calls, spawnVars, server, blocked_edges, current_trains,
                   trains_saved_today>>

SyncGraph == SyncGraphOn(SyncGraphs)

\* POST /spawn/toggle, lines 516-520 (extreme_ai_server.py lines 586-590)
ToggleSpawn ==
    /\ server \in {"sync", "server"}
    /\ \E enabled \in BOOLEAN :
         /\ spawn_enabled' = enabled
         /\ req' = [op |-> "toggle", enabled |-> enabled]
         /\ resp' = [op |-> "toggle", spawn_enabled |-> enabled]
    /\ UNCHANGED <<calls, max_trains, spawned_trains, health, spawner, server, blocked_edges,
                   current_graph, current_trains, trains_saved_today>>

\* GET /health, line 404: the condition current_graph.get("stations")
HealthStart ==
    /\ server = "sync" /\ health.pc = "idle"
    /\ health' = [HealthIdle EXCEPT !.pc = "bind",
                                    !.nonempty = HasStations(current_graph)]
    /\ req' = [op |-> "health"]
    /\ UNCHANGED <<calls, max_trains, spawn_enabled, spawned_trains, spawner, server, blocked_edges,
                   current_graph, current_trains, trains_saved_today, resp>>

\* line 404: g is bound to the global read again or to the default graph;
\* generate_stress_trains and the self-check work on g's stations and edges
HealthBind ==
    /\ health.pc = "bind"
    /\ health' = [health EXCEPT !.pc = "nodes",
                                !.g = IF health.nonempty THEN current_graph
                                      ELSE DefaultGraph]
    /\ UNCHANGED <<calls, max_trains, spawn_enabled, spawned_trains, spawner, server, blocked_edges,
                   current_graph, current_trains, trains_saved_today, req, resp>>

\* lines 405-407: generate_stress_trains(2, graph=g) returns once its loop
\* "while d == s" has drawn a second station name, which g must have; then
\* the self-check and len(current_graph.get("stations", {}))
HealthNodes ==
    /\ health.pc = "nodes"
    /\ Cardinality(StressStations(health.g)) >= 2
    /\ health' = [health EXCEPT !.pc = "edges", !.nodes_from = current_graph]
    /\ UNCHANGED <<calls, max_trains, spawn_enabled, spawned_trains, spawner, server, blocked_edges,
                   current_graph, current_trains, trains_saved_today, req, resp>>

\* line 407: len(current_graph.get("edges", [])) and the answer.  The
\* answer also records which graphs the values were read from.
HealthEdges ==
    /\ health.pc = "edges"
    /\ resp' = [op |-> "health", status |-> "running",
                graph_nodes |-> Cardinality(DOMAIN health.nodes_from.stations),
                graph_edges |-> Len(current_graph.edges),
                g |-> health.g, nodes_from |-> health.nodes_from,
                edges_from |-> current_graph]
    /\ health' = HealthIdle
    /\ UNCHANGED <<calls, max_trains, spawn_enabled, spawned_trains, spawner, server, blocked_edges,
                   current_graph, current_trains, trains_saved_today, req>>

\* spawn_worker, line 505 and the condition of line 507 (extreme_ai_server.py
\* lines 547-549).  The model stops the producer at MaxSpawned trains.
SpawnerCheck ==
    /\ server \in {"sync", "server"} /\ spawner.pc = "sleep"
    /\ spawn_enabled /\ Len(spawned_trains) < max_trains
    /\ Len(spawned_trains) < MaxSpawned
    /\ spawner' = [pc |-> "bind", nonempty |-> HasStations(current_graph)]
    /\ UNCHANGED <<calls, max_trains, spawn_enabled, spawned_trains, health, server, blocked_edges,
                   current_graph, current_trains, trains_saved_today, req, resp>>

\* lines 507-511: g is bound, one train is generated from g and appended.
\* The loop "while d == s" of generate_stress_trains ends with a d that
\* differs from s.
SpawnerSpawn ==
    /\ server = "sync" /\ spawner.pc = "bind"
    /\ \E s \in SpawnPicks, d \in SpawnPicks :
         /\ d # s
         /\ {s, d} \subseteq StressStations(IF spawner.nonempty THEN current_graph
                                              ELSE DefaultGraph)
         /\ spawned_trains' =
               Append(spawned_trains,
                      generate_stress_trains(IF spawner.nonempty THEN current_graph
                                             ELSE DefaultGraph, s, d))
    /\ spawner' = SpawnerAsleep
    /\ UNCHANGED <<calls, max_trains, spawn_enabled, health, server, blocked_edges,
                   current_graph, current_trains, trains_saved_today, req, resp>>

NextWorld ==
    \/ Decide_D \/ ApplyReroute
    \/ DecideWorld_S \/ SyncGraph \/ ToggleSpawn
    \/ HealthStart \/ HealthBind \/ HealthNodes \/ HealthEdges
    \/ SpawnerCheck \/ SpawnerSpawn

SpecWorld == InitWorld /\ [][NextWorld]_vars

---------------------------------------------------------------------------
(* The spawn engine of extreme_ai_sync.py and of extreme_ai_server.py with  *)
(* its endpoints, and /health of extreme_ai_sync.py, on graphs with no, one *)
(* and three stations.                                                      *)

\* one station and a track of length zero
G_one == Graph({"A"}, <<<<"A", "A">>>>)

SpawnGraphs == {Graph({}, <<>>), G_one, G_line}

\* the values of max_trains_limit, when it is given
SpawnLimits == {0, 1, 3}

SyncSpawn == SyncGraphOn(SpawnGraphs)

\* POST /spawn/config, lines 526-533 (extreme_ai_server.py lines 596-603)
SpawnConfig ==
    /\ server \in {"sync", "server"}
    /\ \E given \in BOOLEAN, max_trains_limit \in SpawnLimits :
         /\ max_trains' = IF given THEN Max(1, max_trains_limit) ELSE max_trains
         /\ req' = [op |-> "spawn_config", given |-> given,
                    max_trains_limit |-> IF given THEN max_trains_limit ELSE 0]
         /\ resp' = [op |-> "spawn_config", max_trains |-> max_trains']
    /\ UNCHANGED <<calls, spawn_enabled, spawned_trains, health, spawner, server,
                   blocked_edges, current_graph, current_trains,
                   trains_saved_today>>

\* DELETE /spawn/clear, lines 539-544 (extreme_ai_server.py lines 609-614)
ClearSpawned ==
    /\ server \in {"sync", "server"}
    /\ spawned_trains' = <<>>
    /\ req' = [op |-> "clear_spawned"]
    /\ resp' = [op |-> "clear_spawned", cleared |-> Len(spawned_trains),
                remaining |-> 0]
    /\ UNCHANGED <<calls, max_trains, spawn_enabled, health, spawner, server,
                   blocked_edges, current_graph, current_trains,
                   trains_saved_today>>

(* extreme_ai_server.py lines 549-562: after the loop "while d == s" the    *)
(* two names of a station's dict are unpacked into lat and lon, and line    *)
(* 562 subtracts one string from the other: TypeError, which ends the       *)
(* thread before anything is appended.                                      *)
SpawnerSpawn_X ==
    /\ server = "server" /\ spawner.pc = "bind"
    /\ \E s \in SpawnPicks, d \in SpawnPicks :
         /\ d # s
         /\ {s, d} \subseteq StressStations(IF spawner.nonempty THEN current_graph
                                              ELSE DefaultGraph)
    /\ spawner' = [pc |-> "raised", nonempty |-> spawner.nonempty]
    /\ UNCHANGED <<calls, max_trains, spawn_enabled, spawned_trains, health, server,
                   blocked_edges, current_graph, current_trains,
                   trains_saved_today, req, resp>>

InitSpawn ==
    /\ server \in {"sync", "server"}
    /\ blocked_edges = {}
    /\ current_graph = Graph({}, <<>>)
    /\ current_trains = <<>>
    /\ trains_saved_today = 0
    /\ SpawnInit
    /\ req = [op |-> "none"]
    /\ resp = NoResp

NextSpawn ==
    \/ SyncSpawn \/ ToggleSpawn \/ SpawnConfig \/ ClearSpawned
    \/ HealthStart \/ HealthBind \/ HealthNodes \/ HealthEdges
    \/ SpawnerCheck \/ SpawnerSpawn \/ SpawnerSpawn_X

SpecSpawn == InitSpawn /\ [][NextSpawn]_vars

---------------------------------------------------------------------------
(* Requests handled side by side.  The endpoints are plain "def" functions, *)
(* which FastAPI runs in a pool of worker threads; none of the three        *)
(* programs takes a lock.  A step of a call is a stretch of its code that   *)
(* reads or writes a module global once.                                    *)

\* distance_ai_server.py: two trains within SAFE_DISTANCE of each other; the
\* first of a roster is the one that loses
RacePool_D ==
    {Train("T1", 1, 0, 0, <<"A", "B", "C">>, 0, 100, "A", "C"),
     Train("T2", 1, 0, 950, <<"C", "D", "A">>, 0, 100, "C", "A")}

RaceGraphs_D == {G_full, G_line}

RaceRequests_D ==
    {[op |-> "decide", trains |-> q[1], graph |-> q[2]] :
        q \in Rosters(RacePool_D) \X RaceGraphs_D}

\* lines 106-118 on the request of a call
Hit_D(r) == FirstRisk_D(r.trains, 1, 2)
Low_D(r) == low_D(r.trains[Hit_D(r)[1]], r.trains[Hit_D(r)[2]])
Pair_D(r) == <<r.trains[Hit_D(r)[1]].id, r.trains[Hit_D(r)[2]].id>>

\* the call reaches line 123
Blocks_D(r) ==
    /\ Hit_D(r) # <<>>
    /\ PyIndexOK(Low_D(r).path, idx_D(Low_D(r)))
    /\ PyIndexOK(Low_D(r).path, idx_D(Low_D(r)) + 1)

Finish(call, response) == [call EXCEPT !.pc = "done", !.response = response]

\* lines 102-123: a call of /decide up to blocked_edges.add(blocked_edge);
\* a call that finds no pair in risk, or raises at line 122, ends here
CallBlock_D(c) ==
    /\ server = "distance" /\ calls[c].pc = "idle"
    /\ \E r \in RaceRequests_D :
         IF Blocks_D(r)
         THEN /\ blocked_edges' = BlockedAfter_D(blocked_edges, blocked_edge_D(Low_D(r)))
              /\ calls' = [calls EXCEPT ![c] = [CallIdle EXCEPT !.pc = "route", !.r = r]]
         ELSE /\ blocked_edges' = blocked_edges
              /\ calls' = [calls EXCEPT ![c] =
                              Finish([CallIdle EXCEPT !.r = r],
                                     decide_D(r.trains, r.graph, blocked_edges).response)]
    /\ UNCHANGED <<spawnVars, server, current_graph, current_trains,
                   trains_saved_today, req, resp>>

\* lines 128-148: dijkstra is handed the global set as it is now, and the
\* call answers
CallRoute_D(c) ==
    /\ calls[c].pc = "route"
    /\ calls' = [calls EXCEPT ![c] =
                    Finish(calls[c],
                           Reroute_D(calls[c].r.graph, blocked_edges, Pair_D(calls[c].r),
                                     Low_D(calls[c].r),
                                     blocked_edge_D(Low_D(calls[c].r))).response)]
    /\ UNCHANGED <<spawnVars, server, blocked_edges, current_graph, current_trains,
                   trains_saved_today, req, resp>>

\* extreme_ai_server.py: rosters that begin with T1, on two graphs, with a
\* feed that reports no risk
RaceRequests_X ==
    {r \in Requests_X :
        /\ r.graph \in {G_full, G_line}
        /\ r.feed = Feed(0, 1000, EnvZero(r.graph.edges))
        /\ Len(r.trains) \in 1..2 /\ r.trains[1].id = "T1"}

\* line 360: current_graph = {...}
CallGraph_X(c) ==
    /\ server = "server" /\ calls[c].pc = "idle"
    /\ \E r \in RaceRequests_X :
         /\ current_graph' = r.graph
         /\ calls' = [calls EXCEPT ![c] = [CallIdle EXCEPT !.pc = "trains", !.r = r]]
    /\ UNCHANGED <<spawnVars, server, blocked_edges, current_trains,
                   trains_saved_today, req, resp>>

\* line 361: current_trains = trains
CallTrains_X(c) ==
    /\ calls[c].pc = "trains"
    /\ current_trains' = calls[c].r.trains
    /\ calls' = [calls EXCEPT ![c].pc = "arbitrate"]
    /\ UNCHANGED <<spawnVars, server, blocked_edges, current_graph,
                   trains_saved_today, req, resp>>

\* lines 363-415 on the call's own values; a call that is not critical
\* answers with the counter it reads at line 436
CallArbitrate_X(c) ==
    /\ calls[c].pc = "arbitrate"
    /\ calls' = [calls EXCEPT ![c] =
                    IF Answers_X[calls[c].r].saved = 0
                    THEN [Finish(calls[c], Answers_X[calls[c].r].response)
                             EXCEPT !.reported = trains_saved_today]
                    ELSE [calls[c] EXCEPT !.pc = "store",
                                          !.loaded = trains_saved_today]]
    /\ trains_saved_today' = trains_saved_today
    /\ UNCHANGED <<spawnVars, server, blocked_edges, current_graph, current_trains,
                   req, resp>>

\* line 418, trains_saved_today += 1: the global was loaded in the step
\* before, the sum is stored now
CallStore_X(c) ==
    /\ calls[c].pc = "store"
    /\ trains_saved_today' = calls[c].loaded + 1
    /\ calls' = [calls EXCEPT ![c].pc = "respond"]
    /\ UNCHANGED <<spawnVars, server, blocked_edges, current_graph, current_trains,
                   req, resp>>

\* lines 420-432: the router runs and the answer reads the counter again
CallRespond_X(c) ==
    /\ calls[c].pc = "respond"
    /\ calls' = [calls EXCEPT ![c] =
                    [Finish(calls[c], Answers_X[calls[c].r].response)
                        EXCEPT !.reported = trains_saved_today]]
    /\ UNCHANGED <<spawnVars, server, blocked_edges, current_graph, current_trains,
                   trains_saved_today, req, resp>>

\* GET /parameters_full, line 443: the first argument, current_trains
ReadTrains_X(c) ==
    /\ server = "server" /\ calls[c].pc = "idle"
    /\ calls' = [calls EXCEPT ![c] =
                    [CallIdle EXCEPT !.pc = "stations",
                                     !.r = [op |-> "parameters_full",
                                            trains |-> current_trains,
                                            graph |-> Graph({}, <<>>)]]]
    /\ UNCHANGED <<spawnVars, server, blocked_edges, current_graph, current_trains,
                   trains_saved_today, req, resp>>

\* line 443: the other arguments, read from current_graph; lines 444-461
\* work on the values read
ReadGraph_X(c) ==
    /\ calls[c].pc = "stations"
    /\ calls' = [calls EXCEPT ![c] =
                    [Finish(calls[c], [op |-> "parameters_full"])
                        EXCEPT !.r.graph = current_graph,
                               !.reported = trains_saved_today]]
    /\ UNCHANGED <<spawnVars, server, blocked_edges, current_graph, current_trains,
                   trains_saved_today, req, resp>>

InitRace ==
    /\ server \in {"distance", "server"}
    /\ blocked_edges = {}
    /\ current_graph = Graph({}, <<>>)
    /\ current_trains = <<>>
    /\ trains_saved_today = 0
    /\ SpawnInit
    /\ req = [op |-> "none"]
    /\ resp = NoResp

NextRace ==
    \E c \in CallIds :
        \/ CallBlock_D(c) \/ CallRoute_D(c)
        \/ CallGraph_X(c) \/ CallTrains_X(c) \/ CallArbitrate_X(c)
        \/ CallStore_X(c) \/ CallRespond_X(c)
        \/ ReadTrains_X(c) \/ ReadGraph_X(c)

SpecRace == InitRace /\ [][NextRace]_vars

---------------------------------------------------------------------------
(* compute140Parameters.py: the keys of params, contribs and weights.  A    *)
(* key f"p{i}" is modelled by the number i; add_param writes the same key   *)
(* to the three maps (lines 327-333), and p_index is the next number.       *)

\* p_index after count calls of add_param
AddParams(p_index, count) == p_index + count

\* lines 335-353: average degree, density, A3-A10
GroupA(p_index) == AddParams(p_index, 1 + 1 + 8)

\* lines 355-364: three parameters for every pair of trains
GroupB(p_index, trains) == AddParams(p_index, 3 * NumPairs(Len(trains)))

\* lines 366-373
GroupC(p_index) == AddParams(p_index, 2 + 10)

\* lines 375-387: ten parameters for every train
GroupD(p_index, trains) == AddParams(p_index, 10 * Len(trains))

\* lines 389-394: two parameters for every train and fifteen more
GroupE(p_index, trains) == AddParams(p_index, 2 * Len(trains) + 15)

\* lines 396-399
GroupF(p_index) == AddParams(p_index, 3)

\* lines 401-405: while p_index <= 140: add_param(...)
FillTo140(p_index) == IF p_index <= 140 THEN 141 ELSE p_index

\* lines 322-405: the keys written when the function returns
ParamKeys(trains) ==
    1..(FillTo140(GroupF(GroupE(GroupD(GroupC(GroupB(GroupA(1), trains)),
                                       trains), trains))) - 1)

\* lines 441-453: the three maps of the result
compute140Parameters(trains, stations, edges) ==
    [op |-> "compute140", params |-> ParamKeys(trains),
     contribs |-> ParamKeys(trains), weights |-> ParamKeys(trains)]

MaxParamTrains == 7

TrainIds == <<"T1", "T2", "T3", "T4", "T5", "T6", "T7", "T8">>

\* the rosters: up to MaxParamTrains trains 100 m apart on the way from A
ParamRosters ==
    {[i \in 1..n |-> Train(TrainIds[i], 1, 0, 100 * i, <<"A", "B", "C">>, 0, 100,
                           "A", "C")] : n \in 0..MaxParamTrains}

ParamGraphs == MainGraphs \cup {Graph({}, <<>>), G_triangle, G_one, G_far}

InitParams ==
    /\ server \in {"sync", "server"}
    /\ blocked_edges = {}
    /\ current_graph = Graph({}, <<>>)
    /\ current_trains = <<>>
    /\ trains_saved_today = 0
    /\ SpawnInit
    /\ \E trains \in ParamRosters, graph \in ParamGraphs :
         req = [op |-> "compute140", trains |-> trains, graph |-> graph]
    /\ resp = NoResp

Compute140 ==
    /\ resp = NoResp
    /\ resp' = compute140Parameters(req.trains, req.graph.stations, req.graph.edges)
    /\ UNCHANGED <<calls, spawnVars, server, blocked_edges, current_graph,
                   current_trains, trains_saved_today, req>>

SpecParams == InitParams /\ [][Compute140]_vars

---------------------------------------------------------------------------
(* The weight of one edge in dijkstra of extreme_ai_server.py, for any     *)
(* content of the risk feed.                                               *)

\* the lists of p100 values a feed holds for the segments of one edge, in
\* thousandths: none, zeros, values in [0, 1], values below 0, values above 1
WeightRisks ==
    {<<>>, <<0>>, <<0, 0>>, <<400, 800>>, <<1000>>, <<-500>>, <<-1000>>,
     <<-2000, 0>>, <<300, -300>>, <<2500>>}

\* the feeds: absent, without the edge, or with one of the lists for it
WeightEnvironments(u, v) ==
    {NoEnvironment, [given |-> TRUE, segments |-> <<>>]}
        \cup {[given |-> TRUE, segments |-> [e \in {<<u, v>>} |-> risks]] :
                 risks \in WeightRisks}

InitWeight ==
    /\ server = "server"
    /\ blocked_edges = {}
    /\ current_graph = Graph({}, <<>>)
    /\ current_trains = <<>>
    /\ trains_saved_today = 0
    /\ SpawnInit
    /\ resp = NoResp
    /\ \E u \in DOMAIN StationTable, v \in DOMAIN StationTable :
          /\ u # v
          /\ \E environment \in WeightEnvironments(u, v) :
                req = [op |-> "weight", u |-> u, v |-> v, stations |-> StationTable,
                       environment |-> environment]

\* lines 326-335 for the edge (u, v)
Weigh_X ==
    /\ req.op = "weight" /\ resp.op = "none"
    /\ resp' = [op |-> "weight",
                d |-> haversine(req.stations[req.u].lat, req.stations[req.u].lon,
                                req.stations[req.v].lat, req.stations[req.v].lon),
                weight |-> weight_X(haversine(req.stations[req.u].lat,
                                              req.stations[req.u].lon,
                                              req.stations[req.v].lat,
                                              req.stations[req.v].lon),
                                    risk_factor_X(req.u, req.v, req.environment))]
    /\ RouterFrame

SpecWeight == InitWeight /\ [][Weigh_X]_vars

---------------------------------------------------------------------------
(* Properties of decide and apply_reroute *)

DecideAnswered == req.op = "decide" /\ resp.op = "decide"

\* decide picked a conflict pair
Selected == DecideAnswered /\ resp.pair # <<>>

PosOf(trains, id) == CHOOSE i \in 1..Len(trains) : trains[i].id = id

PriorityOf(id) == req.trains[PosOf(req.trains, id)].priority

OtherOf(pair, id) == IF pair[1] = id THEN pair[2] ELSE pair[1]

\* C4: when the two agents of the selected pair have different priority
\* values, the agent picked to be rerouted or stopped is the one with the
\* strictly lower value, and the train_id of the decision (when it has one)
\* names that agent.
C4_LowerPriorityLoses ==
    (Selected /\ PriorityOf(resp.pair[1]) # PriorityOf(resp.pair[2])) =>
        /\ resp.low \in {resp.pair[1], resp.pair[2]}
        /\ PriorityOf(resp.low) < PriorityOf(OtherOf(resp.pair, resp.low))
        /\ resp.train_id \in {None, resp.low}

\* the agent of lower priority value comes first in the roster and is the
\* one the decision names
C4_Witness ==
    /\ Selected
    /\ server = "sync"
    /\ PriorityOf(resp.pair[1]) < PriorityOf(resp.pair[2])
    /\ resp.action = "REQUEST_CONFIRMATION"
    /\ resp.train_id = resp.pair[1]

\* the roster with the trains at positions i and j exchanged
Swapped(trains, i, j) ==
    [k \in 1..Len(trains) |->
        IF k = i THEN trains[j] ELSE IF k = j THEN trains[i] ELSE trains[k]]

\* the answer this server gives to the decide request r
AnswerTo(r) ==
    IF server = "distance" THEN decide_D(r.trains, r.graph, blocked_edges).response
    ELSE IF server = "sync" THEN Answers_S[r]
    ELSE Answers_X[r].response

\* the request with the two agents of the selected pair exchanged
SwappedReq ==
    [req EXCEPT !.trains = Swapped(req.trains, PosOf(req.trains, resp.pair[1]),
                                   PosOf(req.trains, resp.pair[2]))]

PairSet(pair) == {pair[i] : i \in 1..Len(pair)}

\* C5: when the two agents of the selected pair have equal priority, the
\* request with their roster positions exchanged, if it selects the same
\* pair, picks the same agent.
C5_TieBreakIgnoresOrder ==
    (Selected /\ PriorityOf(resp.pair[1]) = PriorityOf(resp.pair[2])) =>
        (PairSet(AnswerTo(SwappedReq).pair) = PairSet(resp.pair) =>
            AnswerTo(SwappedReq).low = resp.low)

\* the two identifiers of a pair, the smaller one first
Ordered(pair) == IF StrLess(pair[2], pair[1]) THEN <<pair[2], pair[1]>> ELSE pair

\* the pairs whose score is the greatest of the scores
TopPairs(scores) ==
    {Ordered(scores[k].pair) : k \in {k \in 1..Len(scores) :
        \A m \in 1..Len(scores) : scores[m].score <= scores[k].score}}

\* the pair that comes first in the lexicographic order of identifiers
LexLeast(pairs) == CHOOSE p \in pairs : \A q \in pairs : p = q \/ ListLess(p, q)

\* the rosters with the same trains in another order
Reordered(trains) ==
    {r \in [1..Len(trains) -> {trains[i] : i \in 1..Len(trains)}] :
        \A i, j \in 1..Len(trains) : i # j => r[i] # r[j]}

\* C6: the pair decide acts on is the pair of greatest score, the first in
\* the lexicographic order of identifiers among the pairs that share it
\* (extreme_ai_sync.py), and the same pair for every order of the roster
\* (distance_ai_server.py, which has no score).
C6_GlobalMaxLexPair ==
    /\ (Selected /\ server = "sync") =>
          Ordered(resp.pair) = LexLeast(TopPairs(resp.scores))
    /\ (DecideAnswered /\ server = "distance") =>
          \A r \in Reordered(req.trains) :
              PairSet(decide_D(r, req.graph, blocked_edges).response.pair)
                  = PairSet(resp.pair)

\* the score from which the server acts: RISK_THRESHOLD in extreme_ai_sync.py;
\* in extreme_ai_server.py every score above the one of a time to collision
\* of CRITICAL_TTC seconds
AtThreshold ==
    IF server = "sync" THEN resp.score >= RISK_THRESHOLD
    ELSE resp.score > risk_X(CRITICAL_TTC * 10)

\* C7: for a roster of two or more, the action is NORMAL exactly when the
\* greatest pair score is below the threshold; otherwise it is
\* REQUEST_CONFIRMATION with the Router's path exactly when the Router
\* returned a path and a stop action exactly when it returned no path.
C7_ActionFollowsScoreAndRouter ==
    (DecideAnswered /\ server \in {"sync", "server"} /\ Len(req.trains) >= 2) =>
        /\ resp.action = "NORMAL" <=> ~AtThreshold
        /\ resp.action = "REQUEST_CONFIRMATION" <=> resp.router.kind = "path"
        /\ resp.action = "REQUEST_CONFIRMATION" =>
              resp.suggested_path = resp.router.path
        /\ resp.action \in {"STOP_BOTH", "EMERGENCY_STOP"} <=>
              resp.router.kind = "none"

\* the score is at the threshold and the Router found no way round the
\* blocked edge: the roster is stopped
C7_Witness ==
    /\ DecideAnswered
    /\ server = "sync"
    /\ Len(req.trains) >= 2
    /\ AtThreshold
    /\ resp.router.kind = "none"
    /\ resp.action = "STOP_BOTH"

\* C8: no call removes an edge from the global blocked_edges.
C8_BlockedEdgesGrow == [][blocked_edges \subseteq blocked_edges']_vars

\* a second decide call has added a second edge
C8_Witness == server = "distance" /\ Cardinality(blocked_edges) >= 2

\* path has two consecutive stations joined by edge, in either direction
Traverses(path, edge) ==
    \E i \in 1..(Len(path) - 1) :
        <<path[i], path[i + 1]>> = edge \/ <<path[i + 1], path[i]>> = edge

\* C9: on an unchanged graph, the path a decide cycle suggests does not
\* traverse the edge that the decide cycle before it blocked.
C9_BlockedPersists ==
    [][(resp.op = "decide" /\ resp.blocked_edge # <<>> /\ resp'.op = "decide"
        /\ req'.graph = req.graph /\ resp'.action = "REQUEST_CONFIRMATION")
       => ~Traverses(resp'.suggested_path, resp.blocked_edge)]_vars

\* new_path names a station that is in no graph the process has been given
NamesUnknownStation(new_path) ==
    \E i \in 1..Len(new_path) : new_path[i] \notin DOMAIN StationTable

\* C10: decide of extreme_ai_sync.py with an empty roster is answered with an
\* error, and so is apply_reroute with a new_path that names an unknown
\* station.
C10_InvalidRequestsGetErrors ==
    /\ (DecideAnswered /\ server = "sync" /\ req.trains = <<>>) =>
          resp.status = "error"
    /\ (resp.op = "apply_reroute" /\ NamesUnknownStation(req.new_path)) =>
          resp.status = "error"

---------------------------------------------------------------------------
(* Properties of the risk feed and of the pair score *)

\* the feed whose contribution to the score is 0
FeedZero == Feed(0, 1000, NoEnvironment)

\* C13: when compute140Parameters raises, decide still answers with a
\* Decision, and every pair score of extreme_ai_sync.py is the score the pair
\* gets from a feed whose contribution is 0.
C13_FeedFailureIsZero ==
    (DecideAnswered /\ server \in {"sync", "server"} /\ req.feed.raises) =>
        /\ resp.status = "ok"
        /\ server = "sync" =>
              resp.scores = Scores_S(req.trains, req.graph.stations, FeedZero,
                                     req.mc, 1, 2, 1)

\* the requests that hand extreme_ai_sync.py the two agents of req in the
\* other order, on the same graph and with the same feed
MirrorRequests ==
    {r \in Requests_S : /\ r.trains = <<req.trains[2], req.trains[1]>>
                        /\ r.graph = req.graph
                        /\ r.feed = req.feed}

\* C14: for a roster of two agents the pair score lies in [0, 1] and is the
\* score the pair gets when the two agents are handed over in the other
\* order.
C14_ScoreSymmetricBounded ==
    (DecideAnswered /\ server = "sync" /\ Len(req.trains) = 2) =>
        /\ resp.scores[1].score \in 0..1000
        /\ \A r \in MirrorRequests :
              Answers_S[r].scores[1].score = resp.scores[1].score

\* the same for two calls that draw the same Monte-Carlo count
C14_SymmetricOnEqualDraws ==
    (DecideAnswered /\ server = "sync" /\ Len(req.trains) = 2) =>
        /\ resp.scores[1].score \in 0..1000
        /\ \A r \in MirrorRequests :
              r.mc = req.mc => Answers_S[r].scores[1].score = resp.scores[1].score

---------------------------------------------------------------------------
(* Properties of the blocked edge *)

\* floor(progress * (len(path) - 1)) clamped to [0, len(path) - 2], for a
\* progress in thousandths
SegmentIndex(train) ==
    Max(0, Min((train.progress * (Len(train.path) - 1)) \div 1000,
               Len(train.path) - 2))

\* the edge (path[i], path[i + 1]) the agent is on
CurrentEdge(train) ==
    <<train.path[SegmentIndex(train) + 1], train.path[SegmentIndex(train) + 2]>>

\* the agent of the roster with this identifier
AgentOf(trains, id) == trains[PosOf(trains, id)]

\* C18: a decide call of distance_ai_server.py that answers NORMAL leaves
\* blocked_edges as it was; a call that finds a conflict leaves it extended by
\* the current edge of the losing agent and by nothing else, and a path it
\* suggests does not traverse that edge.
C18_ExactBlockedMutation ==
    [][(server = "distance" /\ resp'.op = "decide") =>
          /\ resp'.action = "NORMAL" => blocked_edges' = blocked_edges
          /\ resp'.pair # <<>> =>
                /\ blocked_edges' =
                      blocked_edges \cup {CurrentEdge(AgentOf(req'.trains, resp'.low))}
                /\ resp'.action \in {"REQUEST_CONFIRMATION", "STOP_BOTH"}
                      => resp'.blocked_edge \in blocked_edges'
                /\ ~Traverses(resp'.suggested_path,
                              CurrentEdge(AgentOf(req'.trains, resp'.low)))]_vars

\* the losing agent is half way along its path: its second segment is the
\* only blocked edge, and the Router finds no way round it
C18_Witness ==
    /\ server = "distance"
    /\ resp.op = "decide"
    /\ resp.action = "STOP_BOTH"
    /\ resp.low = "T2"
    /\ blocked_edges = {<<"B", "A">>}

\* C17: the edge blocked for a losing agent with a path of two stations or
\* more is the edge (path[i], path[i + 1]) the agent is on, i the clamped
\* floor of progress * (len(path) - 1), and a path the Router returns starts
\* at path[i] and does not traverse that edge.
C17_BlocksCurrentEdge ==
    (resp.op = "decide" /\ resp.pair # <<>>) =>
        /\ resp.blocked_edge = CurrentEdge(AgentOf(req.trains, resp.low))
        /\ resp.router.kind = "path" =>
              /\ resp.router.path[1] = CurrentEdge(AgentOf(req.trains, resp.low))[1]
              /\ ~Traverses(resp.router.path,
                            CurrentEdge(AgentOf(req.trains, resp.low)))

\* the same for extreme_ai_sync.py alone
C17_SyncBlocksCurrentEdge == server = "sync" => C17_BlocksCurrentEdge

---------------------------------------------------------------------------
(* Properties of the position prediction *)

RECURSIVE WalkStop(_, _, _, _, _)
\* where the walk of predict_future_pos ends: inside the edge edge_idx at
\* ratio (edge_frac * edge_len + remaining) / edge_len, in thousandths, or
\* at the end of the path
WalkStop(train, stations, remaining, edge_idx, edge_frac) ==
    IF remaining > 0 /\ edge_idx < Len(train.path) - 1
    THEN IF remaining < edge_length_m(stations, train.path[edge_idx + 1], train.path[edge_idx + 2])
                          * (1000 - edge_frac)
         THEN [kind |-> "inside", edge_idx |-> edge_idx,
               ratio |-> (edge_frac * edge_length_m(stations, train.path[edge_idx + 1],
                                                    train.path[edge_idx + 2]) + remaining)
                         \div edge_length_m(stations, train.path[edge_idx + 1],
                                            train.path[edge_idx + 2])]
         ELSE WalkStop(train, stations,
                       remaining - edge_length_m(stations, train.path[edge_idx + 1],
                                                 train.path[edge_idx + 2]) * (1000 - edge_frac),
                       edge_idx + 1, 0)
    ELSE [kind |-> "end", edge_idx |-> edge_idx, ratio |-> 0]

\* the same for an agent at its progress value and a lookahead in seconds
StopOf(train, stations, seconds) ==
    WalkStop(train, stations, (SpeedTenths(train.speed) * seconds * 250) \div 9,
             Min(TruncThousandth(Min(Max(train.progress, 0), 1000) * (Len(train.path) - 1)),
                 Len(train.path) - 2),
             Min(Max(train.progress, 0), 1000) * (Len(train.path) - 1)
               - 1000 * Min(TruncThousandth(Min(Max(train.progress, 0), 1000)
                                            * (Len(train.path) - 1)),
                            Len(train.path) - 2))

\* the point at the given ratio between two coordinates
Interpolated(ua, va, ratio) == <<Lerp(ua[1], va[1], ratio), Lerp(ua[2], va[2], ratio)>>

\* how far a coordinate is from another, summed over latitude and longitude
Apart(p, q) == Abs(p[1] - q[1]) + Abs(p[2] - q[2])

StartOfEdge(train, stations, stop) == station_coord(train, stations, stop.edge_idx)

EndOfEdge(train, stations, stop) == station_coord(train, stations, stop.edge_idx + 1)

PredictedInside ==
    /\ server = "sync" /\ resp.op = "predict"
    /\ StopOf(req.train, req.stations, req.seconds).kind = "inside"

\* C19: when the remaining distance is exhausted inside an edge, the
\* predicted coordinate is the interpolation between the edge's two stations
\* at ratio (distance covered on the edge + remaining distance) / edge length;
\* it is strictly between them when the ratio is strictly between 0 and 1,
\* and a longer lookahead ending on the same edge gives a point nearer to the
\* edge's end station.
C19_InterpolatesInsideEdge ==
    PredictedInside =>
        /\ resp.pos = Interpolated(StartOfEdge(req.train, req.stations, StopOf(req.train, req.stations, req.seconds)),
                                   EndOfEdge(req.train, req.stations, StopOf(req.train, req.stations, req.seconds)),
                                   StopOf(req.train, req.stations, req.seconds).ratio)
        /\ StopOf(req.train, req.stations, req.seconds).ratio \in 1..999 =>
              /\ resp.pos # StartOfEdge(req.train, req.stations, StopOf(req.train, req.stations, req.seconds))
              /\ resp.pos # EndOfEdge(req.train, req.stations, StopOf(req.train, req.stations, req.seconds))
        /\ \A later \in PredictSeconds :
              (/\ later > req.seconds
               /\ StopOf(req.train, req.stations, later).kind = "inside"
               /\ StopOf(req.train, req.stations, later).edge_idx
                    = StopOf(req.train, req.stations, req.seconds).edge_idx) =>
                  Apart(predict_future_pos(req.train, req.stations, later),
                        EndOfEdge(req.train, req.stations, StopOf(req.train, req.stations, req.seconds)))
                    < Apart(resp.pos,
                            EndOfEdge(req.train, req.stations, StopOf(req.train, req.stations, req.seconds)))

\* what extreme_ai_server.py adds to the progress within its lookahead, in
\* thousandths of the path
Advance_X(train) == (train.speed * 10 * LOOKAHEAD_X) \div 3600

\* the lookahead takes the agent to the end of its path or beyond
ReachesEnd ==
    /\ resp.op = "predict"
    /\ \/ server = "sync" /\ StopOf(req.train, req.stations, req.seconds).kind = "end"
       \/ server = "server" /\ req.train.progress + Advance_X(req.train) >= 1000

FinalStation(train, stations) ==
    <<stations[train.path[Len(train.path)]].lat, stations[train.path[Len(train.path)]].lon>>

\* C20: when the distance travelled within the lookahead reaches or exceeds
\* what is left of the path (progress = 1 included), the predicted position
\* is the coordinate of the final station of the path.
C20_EndOfPathIsFinalStation ==
    ReachesEnd => resp.pos = FinalStation(req.train, req.stations)

\* the same for predict_future_pos of extreme_ai_sync.py alone
C20_SyncEndOfPath == server = "sync" => C20_EndOfPathIsFinalStation

---------------------------------------------------------------------------
(* Properties of the score of two agents far from each other *)

\* two agents of equal speed and priority whose reported and predicted
\* positions are both farther apart than 2 * SAFE_DISTANCE
FarApart(trains, stations) ==
    /\ Len(trains) = 2
    /\ trains[1].speed = trains[2].speed
    /\ trains[1].priority = trains[2].priority
    /\ haversine(trains[1].lat, trains[1].lon, trains[2].lat, trains[2].lon)
          > 2 * SAFE_DISTANCE_S
    /\ fut_dist_S(predict_future_pos(trains[1], stations, LOOKAHEAD_S),
                  predict_future_pos(trains[2], stations, LOOKAHEAD_S))
          > 2 * SAFE_DISTANCE_S

\* C15: for two such agents decide of extreme_ai_sync.py returns NORMAL and
\* the pair score is approximately 0 (here: at most 0.05), whatever the speed
\* and whatever the feed contributes.
C15_FarApartIsNormal ==
    (server = "sync" /\ resp.op = "decide" /\ FarApart(req.trains, req.graph.stations)) =>
        /\ resp.action = "NORMAL"
        /\ resp.score <= 50

\* the action alone, for a feed that raises or contributes at most 0.5
C15_NormalOnLowFeed ==
    (/\ server = "sync" /\ resp.op = "decide"
     /\ FarApart(req.trains, req.graph.stations)
     /\ paramRisk(req.feed) <= 500) =>
        resp.action = "NORMAL"

\* two such agents stopped: the feed contributes 1 and half of the samples
\* exceed the threshold
C15_FarApartStopped ==
    /\ server = "sync" /\ resp.op = "decide"
    /\ FarApart(req.trains, req.graph.stations)
    /\ paramRisk(req.feed) = 1000 /\ req.mc = <<MONTE_SIMS \div 2>>
    /\ resp.action = "STOP_BOTH"

---------------------------------------------------------------------------
(* Properties of compute_network_load_parameters *)

\* C16: compute_network_load_parameters raises no exception and returns
\* exactly one result entry per train, for every list of trains: the empty
\* list, an empty edge list, trains without "path", trains without "source".
C16_OneEntryPerTrain ==
    resp.op = "load" =>
        /\ resp.kind = "ok"
        /\ Cardinality(DOMAIN resp.results) = Len(req.trains)

\* the same for the lists whose trains all have the key "source" and
\* identifiers of their own
C16_OnSourcedTrains ==
    (/\ resp.op = "load"
     /\ \A i \in 1..Len(req.trains) : HasKey(req.trains[i], "source")
     /\ \A i, j \in 1..Len(req.trains) : req.trains[i].id = req.trains[j].id => i = j) =>
        /\ resp.kind = "ok"
        /\ DOMAIN resp.results = {req.trains[i].id : i \in 1..Len(req.trains)}
        /\ Cardinality(DOMAIN resp.results) = Len(req.trains)

---------------------------------------------------------------------------
(* Properties of the world state *)

\* C11: a call of apply_reroute leaves the blocked edges, the current graph,
\* the current roster and the spawned trains as they were, whatever train_id
\* and new_path it is given.
C11_ApplyRerouteChangesNothing ==
    [][(resp'.op = "apply_reroute" /\ UNCHANGED <<health, spawner>>) =>
          UNCHANGED <<blocked_edges, current_graph, current_trains,
                      spawned_trains, spawn_enabled>>]_vars

\* apply_reroute has answered with a graph, a roster and spawned trains in
\* the world
C11_Witness ==
    /\ resp.op = "apply_reroute" /\ server = "sync"
    /\ HasStations(current_graph) /\ current_trains # <<>>
    /\ Len(spawned_trains) = MaxSpawned

\* the same on distance_ai_server.py, with a blocked edge
C11_WitnessBlocked ==
    /\ resp.op = "apply_reroute" /\ server = "distance" /\ blocked_edges # {}

\* C12: the stations and the edges a health check uses come from one and the
\* same graph snapshot, also when /sync or /decide replaces the graph while
\* the check runs; so do the station names and coordinates of a spawned
\* train.
C12_OneSnapshot ==
    /\ resp.op = "health" => resp.nodes_from = resp.edges_from
    /\ \A i \in 1..Len(spawned_trains) :
          \E g \in SyncGraphs \cup {DefaultGraph} :
             /\ {spawned_trains[i].source, spawned_trains[i].destination}
                   \subseteq StressStations(g)
             /\ <<spawned_trains[i].lat, spawned_trains[i].lon>>
                   = safe_station_coord(g.stations, spawned_trains[i].source, <<0, 0>>)

\* the graph the self-check of a health check runs on is a graph that was
\* given to /sync or /decide, or the default graph
C12_SelfCheckOneSnapshot ==
    resp.op = "health" => resp.g \in SyncGraphs \cup {DefaultGraph}

---------------------------------------------------------------------------
(* Properties of the Router on edges and weights *)

\* an edge of the list with an endpoint that is not in the station map
InvalidEdges(graph) ==
    {e \in EdgeSet(graph.edges) :
        e[1] \notin DOMAIN graph.stations \/ e[2] \notin DOMAIN graph.stations}

\* C22: an edge with an endpoint missing from the station map is skipped: a
\* query between two stations of the map is answered without an exception,
\* and a returned path holds stations of the map only.
C22_InvalidEdgesSkipped ==
    (/\ RouterAnswered
     /\ req.start \in DOMAIN req.graph.stations
     /\ req.goal \in DOMAIN req.graph.stations) =>
        /\ resp.result.kind # "raise"
        /\ resp.result.kind = "path" =>
              \A i \in 1..Len(resp.result.path) :
                  resp.result.path[i] \in DOMAIN req.graph.stations

\* the same on graphs that have no such edge
C22_OnWellFormedGraphs == WellFormed(req.graph) => C22_InvalidEdgesSkipped

\* the feed holds no p100 value for the edge of the request
NoFeedData ==
    \/ ~req.environment.given
    \/ <<req.u, req.v>> \notin DOMAIN req.environment.segments
    \/ req.environment.segments[<<req.u, req.v>>] = <<>>

\* C21: whatever the feed holds, the weight of an edge is at least the raw
\* distance between its endpoints, and it is exactly that distance when the
\* feed has no data for the edge.
C21_WeightAtLeastDistance ==
    resp.op = "weight" =>
        /\ resp.weight >= resp.d
        /\ NoFeedData => resp.weight = resp.d

\* the same for the feeds whose values are all 0 or more
C21_OnNonNegativeRisks ==
    (/\ resp.op = "weight"
     /\ ~NoFeedData =>
           \A i \in 1..Len(req.environment.segments[<<req.u, req.v>>]) :
               req.environment.segments[<<req.u, req.v>>][i] >= 0) =>
        C21_WeightAtLeastDistance

---------------------------------------------------------------------------
(* Properties of the blocked set over time *)

\* the decide call of distance_ai_server.py just answered asked its Router
\* for a path from start to goal on graph
Queried(graph, start, goal) ==
    /\ server = "distance" /\ resp.op = "decide" /\ resp.router.kind # "not called"
    /\ req.graph = graph
    /\ resp.blocked_edge[1] = start
    /\ AgentOf(req.trains, resp.low).destination = goal

\* and answered STOP_BOTH, the Router having found no path
FoundNoPath(graph, start, goal) ==
    /\ Queried(graph, start, goal)
    /\ resp.action = "STOP_BOTH" /\ resp.router.kind = "none"

\* the queries the agents of Pool_D make when they lose: from the start of
\* their current edge to their destination
Queries_D == {<<CurrentEdge(train)[1], train.destination>> : train \in Pool_D}

\* C28: once a decide call of distance_ai_server.py has answered STOP_BOTH
\* because its Router found no path from start to goal on a graph, no later
\* decide call with the same graph and the same query gets a path, whatever
\* decide and apply_reroute calls come in between.
C28_NoPathStays ==
    \A graph \in MainGraphs \cup {G_triangle}, query \in Queries_D :
        [](FoundNoPath(graph, query[1], query[2]) =>
              [](Queried(graph, query[1], query[2]) => resp.router.kind # "path"))

\* the Router has found no path from B to A in the triangle: the edge B-A
\* is blocked by this call, the edge C-B by an earlier call
C28_Witness ==
    /\ FoundNoPath(G_triangle, "B", "A")
    /\ Cardinality(blocked_edges) >= 2


\* a step of the /health call in progress
HealthStep == HealthBind \/ HealthNodes \/ HealthEdges

\* the step of spawn_worker that ends the iteration it has begun
SpawnerStep == SpawnerSpawn \/ SpawnerSpawn_X

\* C25: no operation blocks indefinitely: on every graph that was installed,
\* a /health call in progress can take its next step, and an iteration of
\* the spawn producer that has begun can end.
C25_NoOperationBlocks ==
    /\ health.pc # "idle" => ENABLED HealthStep
    /\ spawner.pc = "bind" => ENABLED SpawnerStep

\* the same for /health alone
C25_HealthNeverBlocks == health.pc # "idle" => ENABLED HealthStep

\* C26: the number of spawned trains is at most the configured max_trains.
C26_SpawnedAtMostMax == Len(spawned_trains) <= max_trains

\* C27: no two entries of spawned_trains share an id.
C27_DistinctSpawnedIds ==
    \A i, j \in 1..Len(spawned_trains) :
        i # j => spawned_trains[i].id # spawned_trains[j].id


---------------------------------------------------------------------------
(* Properties of requests handled side by side *)

Idle(c) == calls[c].pc = "idle"
Done(c) == calls[c].pc = "done"

\* every call that has begun has answered
AllAnswered == \A c \in CallIds : Idle(c) \/ Done(c)

\* the calls that have answered
Answered == {c \in CallIds : Done(c)}

\* /decide of distance_ai_server.py on the request of call a from the state
\* after construction
First_D(a) == decide_D(calls[a].r.trains, calls[a].r.graph, {})

\* ... and then on the request of call b
Second_D(a, b) ==
    decide_D(calls[b].r.trains, calls[b].r.graph, First_D(a).blocked_edges)

\* the answers and the blocked edges are those of call a followed by call b
SerialOutcome_D(a, b) ==
    /\ calls[a].response = First_D(a).response
    /\ calls[b].response = Second_D(a, b).response
    /\ blocked_edges = Second_D(a, b).blocked_edges

\* C24: when two calls of /decide of distance_ai_server.py have answered,
\* their answers and the blocked edges are those of one of the two serial
\* executions of the same calls.
C24_DecideSerialized ==
    server = "distance" =>
        \A a, b \in CallIds :
            (a # b /\ Answered = {a, b} /\ AllAnswered) =>
                SerialOutcome_D(a, b) \/ SerialOutcome_D(b, a)

\* the same when dijkstra found a path in both calls
C24_WhenBothRerouted ==
    (/\ server = "distance"
     /\ \A c \in Answered : calls[c].response.action = "REQUEST_CONFIRMATION") =>
        C24_DecideSerialized

\* the calls of /decide that answered with an intervention
Intervened ==
    {c \in Answered : /\ calls[c].r.op = "decide"
                      /\ calls[c].response.status = "ok"
                      /\ calls[c].response.action # "NORMAL"}

\* C29: when every call has answered, trains_saved_today is the number of
\* calls of /decide that answered with an action other than NORMAL, and the
\* values of trains_saved_today those calls report differ from each other.
C29_CountsInterventions ==
    (server = "server" /\ AllAnswered) =>
        /\ trains_saved_today = Cardinality(Intervened)
        /\ \A a, b \in Intervened : a # b => calls[a].reported # calls[b].reported

\* the first half alone: no increment is lost
C29_NoLostIncrement ==
    (server = "server" /\ AllAnswered) => trains_saved_today = Cardinality(Intervened)

\* the calls of /decide that have written current_graph
Deciding == {c \in CallIds : calls[c].r.op = "decide"}

\* C23: a call of parameters_full that has answered did not work on the
\* graph written by one call of /decide and the roster written by another:
\* if its graph and its roster are those of two calls, one call wrote both.
C23_ReaderSeesOneCall ==
    \A c \in Answered :
        (/\ server = "server" /\ calls[c].r.op = "parameters_full"
         /\ \E a, b \in Deciding : /\ a # b
                                   /\ calls[c].r.graph = calls[a].r.graph
                                   /\ calls[c].r.trains = calls[b].r.trains)
            => \E a \in Deciding : /\ calls[c].r.graph = calls[a].r.graph
                                   /\ calls[c].r.trains = calls[a].r.trains

\* the same for a reader that begins when every call of /decide has answered:
\* the world state itself is left mixed
C23_WorldStateOfOneCall ==
    (/\ server = "server" /\ AllAnswered
     /\ \E a, b \in Deciding : /\ a # b /\ current_graph = calls[a].r.graph
                               /\ current_trains = calls[b].r.trains)
        => \E a \in Deciding : /\ current_graph = calls[a].r.graph
                               /\ current_trains = calls[a].r.trains


\* C30: whatever the roster and the graph, params, contribs and weights of
\* compute140Parameters have exactly the keys p1..p140.
C30_Exactly140Keys ==
    resp.op = "compute140" =>
        /\ resp.params = 1..140
        /\ resp.contribs = 1..140
        /\ resp.weights = 1..140

\* the same for rosters of at most five trains
C30_UpToFiveTrains == Len(req.trains) <= 5 => C30_Exactly140Keys

=============================================================================
